---- MODULE Spec2Model ----
(***************************************************************************)
(* SnapCapit: caption contest on a shared image.  The model covers the     *)
(* Redis-backed services (CaptionsServices, PostsServices) and the store   *)
(* operations they issue.  Every awaited Redis command is one atomic step  *)
(* of a handler; a handler is the sequence of its steps.  SeqSpec runs     *)
(* handlers one at a time (each handler to completion), Spec interleaves   *)
(* the steps of handlers that are in flight together.  SettleSpec follows  *)
(* a contest from the create-post form to the settlement job and the       *)
(* post-delete trigger, with the calls that may fail on the way.  ApiSpec   *)
(* sends requests to the HTTP routes of two contests, PublishSpec settles  *)
(* a contest beside a second one, and OverlapSpec interleaves the awaited  *)
(* calls of the job, a second delivery of it and the trigger.              *)
(* SnapshotSpec runs requests between the reads of getTopCaptions,         *)
(* PurgeSpec purges under failing store commands, FrameSpec works on two   *)
(* contests side by side, BackendSpec is the rendering backend's           *)
(* /generateCaption, RoundTripSpec the conversion of a caption to and from *)
(* its hash, and CountdownSpec the Countdown component.                    *)
(***************************************************************************)
EXTENDS Integers, Sequences, FiniteSets, TLC

\* ---------------------------------------------------------------- bounds
MaxIds     == 4   \* distinct values randomUUID() may return
MaxSeqIds  == 2   \* distinct values randomUUID() may return in SeqSpec
MaxCreates == 2   \* createCaption calls begun in one behaviour
MaxToggles == 2   \* upvoteCaption calls begun in one behaviour
MaxPurges  == 2   \* deliveries of the purge (settlement tail) in one behaviour
MaxConcCreates == 1   \* createCaption calls begun in one behaviour of Spec
MaxConcToggles == 3   \* upvoteCaption calls begun in one behaviour of Spec
MaxConcPurges  == 1   \* purges begun in one behaviour of Spec
MaxRankCreates == 4   \* createCaption calls begun in one behaviour of RankSpec
MaxRankToggles == 1   \* upvoteCaption calls begun in one behaviour of RankSpec
MaxSettleCreates == 2 \* createCaption calls begun in one behaviour of SettleSpec
MaxSettleToggles == 1 \* upvoteCaption calls begun in one behaviour of SettleSpec
MaxDeliveries    == 2 \* times the scheduler delivers the settlement job
MaxPublishFailures == 1 \* captions whose publishing fails in one job run
MaxPublishCreates == 4 \* createCaption calls begun in one behaviour of PublishSpec
MaxPublishToggles == 1 \* upvoteCaption calls begun in one behaviour of PublishSpec
MaxApiCreates == 2    \* create requests sent in one behaviour of ApiSpec
MaxApiToggles == 1    \* upvote requests sent in one behaviour of ApiSpec
MaxApiPurges == 1     \* purges run in one behaviour of ApiSpec
MaxOverlapCreates == 2    \* createCaption calls begun in one behaviour of OverlapSpec
MaxOverlapDeliveries == 2 \* deliveries of the job in one behaviour of OverlapSpec
MaxSnapshotToggles == 1   \* upvoteCaption calls begun in one behaviour of SnapshotSpec
MaxPurgeCreates == 2      \* createCaption calls in one behaviour of PurgeSpec
MaxPurgeToggles == 1      \* upvoteCaption calls in one behaviour of PurgeSpec
MaxPurgeRuns == 2         \* purgeCaptionsAndUpvotes calls in one behaviour of PurgeSpec
MaxFrameCreates == 3      \* createCaption calls in one behaviour of FrameSpec
MaxFrameToggles == 2      \* upvoteCaption calls in one behaviour of FrameSpec
MaxFramePurges == 1       \* purges in one behaviour of FrameSpec
MaxTicks == 4             \* firings of the Countdown's interval in one behaviour

Posts == {"p1", "p2"}     \* the contests (Reddit post ids)
MainPosts == {"p1"}       \* the contest the single-contest specifications follow
Users == {"A", "B", "C"}
RankAuthors == {"A"}     \* the users submitting captions in RankSpec
RankUsers == {"A", "B"}  \* the users voting in RankSpec
ConcUsers == {"A", "B"}  \* the users acting in Spec
SettleAuthors == {"A"}    \* the users submitting captions in SettleSpec
SettleUsers == {"A", "B"} \* the users voting in SettleSpec
SettleIds == {1, 2}       \* the values randomUUID() may return in SettleSpec
Procs == {1, 2}          \* requests that can be in flight together
Ids   == 1..MaxIds       \* UUID strings, integer order = lexicographic order

\* ------------------------------------------------------- value encodings
Undefined == "<undefined>"     \* JS undefined, for string and boolean fields
UndefId   == -1                \* JS undefined, for the id field
EmptyId   == 0                 \* the empty string '', for the id field
NaN       == -1                \* result of parseInt on a non-number

\* Number.prototype.toString for a non-negative integer: its decimal digits.
RECURSIVE NumToString(_)
NumToString(n) == IF n < 10 THEN <<n>> ELSE Append(NumToString(n \div 10), n % 10)

\* parseInt(s, 10) on a digit sequence; NaN on the empty / missing string.
RECURSIVE ParseDigits(_)
ParseDigits(s) ==
  IF Len(s) = 0 THEN 0
  ELSE 10 * ParseDigits(SubSeq(s, 1, Len(s) - 1)) + s[Len(s)]

ParseInt(s) == IF Len(s) = 0 THEN NaN ELSE ParseDigits(s)

\* `x || ''` on an optional string.
OrEmpty(x) == IF x = Undefined THEN "" ELSE x
\* Variant of OrUndefined that hands the stored string back as it is.
AsStored(x) == x
\* `x || undefined` on a stored string.
OrUndefined(x) == IF x = "" THEN Undefined ELSE x

toRedisDataType(caption) ==
  [ id                    |-> IF caption.id = UndefId THEN EmptyId ELSE caption.id,
    username              |-> caption.username,
    topExtendedCaption    |-> OrEmpty(caption.topExtendedCaption),
    bottomExtendedCaption |-> OrEmpty(caption.bottomExtendedCaption),
    topCaption            |-> OrEmpty(caption.topCaption),
    bottomCaption         |-> OrEmpty(caption.bottomCaption),
    topExtensionWhite     |-> IF caption.topExtensionWhite = "TRUE" THEN "true" ELSE "false",
    bottomExtensionWhite  |-> IF caption.bottomExtensionWhite = "TRUE" THEN "true" ELSE "false",
    createdAt             |-> NumToString(caption.createdAt) ]

fromRedisDataType(redisData) ==
  [ id                    |-> IF redisData.id = EmptyId THEN UndefId ELSE redisData.id,
    username              |-> redisData.username,
    topExtendedCaption    |-> OrUndefined(redisData.topExtendedCaption),
    bottomExtendedCaption |-> OrUndefined(redisData.bottomExtendedCaption),
    topCaption            |-> OrUndefined(redisData.topCaption),
    bottomCaption         |-> OrUndefined(redisData.bottomCaption),
    topExtensionWhite     |-> IF redisData.topExtensionWhite = "true" THEN "TRUE" ELSE Undefined,
    bottomExtensionWhite  |-> IF redisData.bottomExtensionWhite = "true" THEN "TRUE" ELSE Undefined,
    createdAt             |-> ParseInt(redisData.createdAt) ]

\* ----------------------------------------------------------- Redis store
\* A hash that does not exist reads back (hGetAll) as the empty object.
EmptyCaptionHash ==
  [ id |-> EmptyId, username |-> "", topExtendedCaption |-> "",
    bottomExtendedCaption |-> "", topCaption |-> "", bottomCaption |-> "",
    topExtensionWhite |-> "", bottomExtensionWhite |-> "", createdAt |-> <<>> ]

EmptyPostHash == [ id |-> "", imageUrl |-> "", jobId |-> "" ]

\* Variant of CaptionExists that finds every caption key.
CaptionExistsAlways(h) == TRUE

\* redis.exists on a hash key: a hash exists when it holds at least one field.
CaptionExists(h) == h # EmptyCaptionHash

\* Variant of PostExists that finds every post key.
PostExistsAlways(h) == TRUE

PostExists(h) == h # EmptyPostHash

\* A sorted set is a set of [member, score] items with distinct members.
ZMembers(z) == { it.member : it \in z }

\* Variant of ZAdd that drops the members the set had before.
ZAddAlone(z, m, s) == { [member |-> m, score |-> s] }

ZAdd(z, m, s) == { it \in z : it.member # m } \cup { [member |-> m, score |-> s] }

ZRem(z, m) == { it \in z : it.member # m }

ZCard(z) == Cardinality(z)

\* Score of a member, -1 when the member is absent.
ZScore(z, m) ==
  IF m \in ZMembers(z) THEN (CHOOSE it \in z : it.member = m).score ELSE -1

\* Redis order of a sorted set: ascending score, equal scores by member;
\* rank[m] is the position of member m in the byte order of the members.
ZBefore(a, b, rank) ==
  \/ a.score < b.score
  \/ a.score = b.score /\ rank[a.member] < rank[b.member]

\* 0-based rank of an item in its sorted set.
ZRankOf(z, it, rank) == Cardinality({ o \in z : ZBefore(o, it, rank) })

\* The whole sorted set as a sequence in Redis order.
ZSorted(z, rank) ==
  [ i \in 1..Cardinality(z) |-> CHOOSE it \in z : ZRankOf(z, it, rank) = i - 1 ]

\* Redis index normalisation: a negative index counts from the end.
ZIndex(i, n) == IF i < 0 THEN n + i ELSE i

\* redis.zRange(key, start, stop) by rank, both ends inclusive.
ZRange(z, start, stop, rank) ==
  LET n  == Cardinality(z)
      lo == IF ZIndex(start, n) < 0 THEN 0 ELSE ZIndex(start, n)
      hi == IF ZIndex(stop, n) >= n THEN n - 1 ELSE ZIndex(stop, n)
  IN  IF lo > hi THEN <<>> ELSE SubSeq(ZSorted(z, rank), lo + 1, hi + 1)

\* Variant of IdRank that orders the ids backwards.
IdRankBackwards == [m \in Ids |-> 0 - m]

\* Order of caption ids as sorted-set members (byte order of the UUID strings).
IdRank == [m \in Ids |-> m]

\* Order of usernames as sorted-set members.
UserSeq == <<"A", "B", "C">>
UserRank == [u \in Users |-> CHOOSE i \in 1..Len(UserSeq) : UserSeq[i] = u]

\* Variant of Reverse that leaves the order as it is.
KeepOrder(s) == s

\* Array.prototype.reverse.
RECURSIVE Reverse(_)
Reverse(s) == IF Len(s) = 0 THEN <<>> ELSE Append(Reverse(Tail(s)), Head(s))

Max(a, b) == IF a >= b THEN a ELSE b

\* ------------------------------------------------------------ variables
VARIABLES
  store,      \* the Redis keys: post hashes, caption hashes, the two sorted sets
  calls,      \* per request slot: the handler in flight, its position and locals
  issued,     \* UUIDs randomUUID() has returned so far
  launched,   \* posts the platform has created so far
  nCreates,   \* createCaption calls begun
  nToggles,   \* upvoteCaption calls begun
  nPurges,    \* purges begun
  platform    \* what lives outside Redis: Reddit posts, scheduler jobs, published posts

vars == <<store, calls, issued, launched, nCreates, nToggles, nPurges, platform>>

Keys == Posts \X Ids     \* (postId, captionId) pairs naming caption keys

NoCaption ==
  [ id |-> UndefId, username |-> "", topExtendedCaption |-> Undefined,
    bottomExtendedCaption |-> Undefined, topCaption |-> Undefined,
    bottomCaption |-> Undefined, topExtensionWhite |-> Undefined,
    bottomExtensionWhite |-> Undefined, createdAt |-> 0 ]

\* How rendering, uploading and posting one caption can end: posted, a
\* non-OK answer of the renderer, or an error thrown on the way.
Outcomes == {"ok", "notOk", "throws"}
NoFailures == [id \in Ids |-> "ok"]

\* The history a call carries when no read has begun.
NoStart == [ranking |-> {}, toggles |-> 0]

\* What getTimeLeft returns for a target that is not in the future.
NoTimeLeft == [total |-> 0, days |-> 0, hours |-> 0, minutes |-> 0, seconds |-> 0]

\* No Countdown component is mounted.
NoCountdown == [target |-> 0, at |-> 0, ticks |-> 0, timeLeft |-> NoTimeLeft, shown |-> ""]

\* A request slot with nothing in flight.
Idle ==
  [ op |-> "idle", pc |-> "idle", post |-> "", id |-> EmptyId, user |-> "",
    caption |-> NoCaption, has |-> FALSE, n |-> 0, items |-> <<>>,
    out |-> <<>>, ret |-> "none",
    code |-> 0,               \* HTTP status of the response, 0 before it is sent
    job |-> Undefined,        \* the jobId purgePost returned
    running |-> FALSE,        \* the settlement job found its post record
    tried |-> <<>>,           \* captions the settlement job tried to publish
    fault |-> "none",         \* the awaited call that fails in this run
    publish |-> NoFailures,   \* per caption, how publishing it ends
    start |-> NoStart,        \* history: ranking set and toggle count when the call began
    key |-> Undefined,        \* x-api-key header of a request to the rendering backend
    countdown |-> NoCountdown ]  \* state of a mounted Countdown component

\* Nothing submitted, nothing scheduled, nothing published yet.
EmptyPlatform ==
  [ posts      |-> [p \in Posts |-> "none"],  \* Reddit post: none, live, removed, deleted
    pending    |-> {},     \* scheduler jobs waiting for their runAt
    delivered  |-> {},     \* scheduler jobs delivered at least once
    scheduled  |-> 0,      \* scheduler.runJob calls that returned a job id
    deliveries |-> 0,      \* deliveries of the settlement job so far
    removals   |-> 0,      \* originalPost.remove() calls of the settlement job
    published  |-> <<>>,   \* captions posted by reddit.submitPost, in order
    purged     |-> {},     \* posts whose purge deleted the record and returned
    apiKey     |-> Undefined ] \* process.env.API_KEY of the rendering backend

EmptyStore ==
  [ post     |-> [p \in Posts |-> EmptyPostHash],
    caption  |-> [k \in Keys |-> EmptyCaptionHash],
    captions |-> [p \in Posts |-> {}],
    upvotes  |-> [k \in Keys |-> {}] ]

Init ==
  /\ store = EmptyStore
  /\ calls = [i \in Procs |-> Idle]
  /\ issued = {}
  /\ launched = {}
  /\ nCreates = 0
  /\ nToggles = 0
  /\ nPurges = 0
  /\ platform = EmptyPlatform

\* A handler that has returned or thrown.
Finished(c) == c.pc \in {"idle", "done"}

Done(c, r) == [c EXCEPT !.pc = "done", !.ret = r]

Result(c, st) == [call |-> c, store |-> st]

\* --------------------------------------------------- CaptionsServices
\* The score createCaption gives the new caption in the ranking.
InitialScore == 0

\* Variant of captionId that keeps the id the client put into the payload.
captionIdFromClient(caption, uuid) == IF caption.id = UndefId THEN uuid ELSE caption.id

\* The id createCaption gives the new caption: the value randomUUID() returned,
\* whatever the submitted payload holds.
captionId(caption, uuid) == uuid

\* Variant of captionWithId that spreads the payload after the id, so that an
\* id in the payload wins.
captionWithIdSpreadLast(caption, id) == IF caption.id = UndefId THEN [caption EXCEPT !.id = id] ELSE caption

\* { ...caption, id: captionId }: the payload with its id field overwritten.
captionWithId(caption, id) == [caption EXCEPT !.id = id]

\* One awaited store command of createCaption(redis, c.post, c.caption);
\* c.id is the value randomUUID() returns for this call.  A command that
\* throws (c.fault names it) ends the call in the catch block, which rethrows
\* and leaves what the earlier commands wrote.
createCaptionStep(c, st) ==
  LET id            == captionId(c.caption, c.id)
      k             == <<c.post, id>>
      created       == captionWithId(c.caption, id)
  IN
  IF c.fault = c.pc THEN Result(Done(c, "error"), st) ELSE
  CASE c.pc = "cr_exists" ->
         IF ~PostExists(st.post[c.post])
         THEN Result(Done(c, "error"), st)
         ELSE Result([c EXCEPT !.pc = "cr_hSet"], st)
    [] c.pc = "cr_hSet" ->
         Result([c EXCEPT !.pc = "cr_zAddCaptions"],
                [st EXCEPT !.caption[k] = toRedisDataType(created)])
    [] c.pc = "cr_zAddCaptions" ->
         Result([c EXCEPT !.pc = "cr_zAddUpvotes"],
                [st EXCEPT !.captions[c.post] = ZAdd(@, id, InitialScore)])
    [] c.pc = "cr_zAddUpvotes" ->
         Result([Done(c, "ok") EXCEPT !.out = <<created>>],
                [st EXCEPT !.upvotes[k] = ZAdd(@, c.caption.username, 1)])

\* Variant of userHasUpvoted that never finds the voter in the list.
userHasUpvotedNever(upvotesList, username) == FALSE

\* upvotesList.some(item => item.member === username)
userHasUpvoted(upvotesList, username) ==
  \E i \in 1..Len(upvotesList) : upvotesList[i].member = username

\* One awaited store command of upvoteCaption(redis, c.post, c.id, c.user).
upvoteCaptionStep(c, st) ==
  LET k == <<c.post, c.id>> IN
  CASE c.pc = "up_exists" ->
         IF ~CaptionExists(st.caption[k])
         THEN Result(Done(c, "error"), st)
         ELSE Result([c EXCEPT !.pc = "up_zRange"], st)
    [] c.pc = "up_zRange" ->
         LET upvotesList == ZRange(st.upvotes[k], 0, -1, UserRank)
         IN  Result([c EXCEPT !.pc = "up_mutate",
                              !.has = userHasUpvoted(upvotesList, c.user)], st)
    [] c.pc = "up_mutate" ->
         IF c.has
         THEN Result([c EXCEPT !.pc = "up_zCard", !.ret = "false"],
                     [st EXCEPT !.upvotes[k] = ZRem(@, c.user)])
         ELSE Result([c EXCEPT !.pc = "up_zCard", !.ret = "true"],
                     [st EXCEPT !.upvotes[k] = ZAdd(@, c.user, 1)])
    [] c.pc = "up_zCard" ->
         Result([c EXCEPT !.pc = "up_zAddCaptions", !.n = ZCard(st.upvotes[k])], st)
    [] c.pc = "up_zAddCaptions" ->
         Result([c EXCEPT !.pc = "done"],
                [st EXCEPT !.captions[c.post] = ZAdd(@, c.id, c.n)])

\* Variant of TopCount that asks for one caption fewer.
TopCountTwo == 3 - 1

\* How many captions getTopCaptions asks the ranking for.
TopCount == 3

\* Variant of SkipCaption that gives up the whole read.
FailOnMissingCaption(c) == Done(c, "error")

\* `continue` for a ranking record whose payload is missing: the loop goes on
\* with the next item and nothing is added to the result.
SkipCaption(c) == [c EXCEPT !.items = Tail(@)]

\* One awaited store command of getTopCaptions(redis, c.post).
getTopCaptionsStep(c, st) ==
  CASE c.pc = "gt_zCard" ->
         Result([c EXCEPT !.pc = "gt_zRange", !.n = ZCard(st.captions[c.post])], st)
    [] c.pc = "gt_zRange" ->
         LET totalCount == c.n
             startIndex == Max(0, totalCount - TopCount)
             endIndex   == totalCount - 1
             topCaptionItems == ZRange(st.captions[c.post], startIndex, endIndex, IdRank)
         IN  Result([c EXCEPT !.pc = "gt_hGetAll",
                              !.items = Reverse(topCaptionItems)], st)
    [] c.pc = "gt_hGetAll" ->
         IF Len(c.items) = 0
         THEN Result(Done(c, "ok"), st)
         ELSE LET captionData == st.caption[<<c.post, Head(c.items).member>>]
              IN  IF ~CaptionExists(captionData)
                  THEN Result(SkipCaption(c), st)
                  ELSE Result([c EXCEPT !.items = Tail(@),
                                        !.out = Append(@, fromRedisDataType(captionData))],
                              st)

\* The loop of purgeCaptionsAndUpvotes goes on with the entry after the
\* current one, also from the catch block inside the loop.
NextEntry(c) ==
  [c EXCEPT !.items = Tail(@),
            !.pc = IF Len(c.items) = 1 THEN "pc_delKey" ELSE "pc_delCaption"]

\* One awaited store command of purgeCaptionsAndUpvotes(redis, c.post).  A
\* failing del of an entry's keys (c.fault names the command) is caught
\* inside the loop and logged; a failing zRange or del of the ranking set
\* reaches the outer catch block, which rethrows.
purgeCaptionsAndUpvotesStep(c, st) ==
  CASE c.pc = "pc_zRange" ->
         IF c.fault = c.pc THEN Result(Done(c, "error"), st) ELSE
         LET captionItems == ZRange(st.captions[c.post], 0, -1, IdRank)
         IN  Result([c EXCEPT !.items = captionItems,
                              !.pc = IF Len(captionItems) = 0
                                     THEN "pc_delKey" ELSE "pc_delCaption"], st)
    [] c.pc = "pc_delCaption" ->
         IF c.fault = c.pc THEN Result(NextEntry(c), st) ELSE
         Result([c EXCEPT !.pc = "pc_delUpvotes"],
                [st EXCEPT !.caption[<<c.post, Head(c.items).member>>] = EmptyCaptionHash])
    [] c.pc = "pc_delUpvotes" ->
         IF c.fault = c.pc THEN Result(NextEntry(c), st) ELSE
         Result(NextEntry(c),
                [st EXCEPT !.upvotes[<<c.post, Head(c.items).member>>] = {}])
    [] c.pc = "pc_delKey" ->
         IF c.fault = c.pc THEN Result(Done(c, "error"), st) ELSE
         Result(Done(c, "ok"), [st EXCEPT !.captions[c.post] = {}])

\* One awaited store command of getCaptionsWithUpvotes(redis, c.post, c.user).
getCaptionsWithUpvotesStep(c, st) ==
  CASE c.pc = "gc_zRange" ->
         LET captionItems == ZRange(st.captions[c.post], 0, -1, IdRank)
         IN  IF Len(captionItems) = 0
             THEN Result(Done(c, "ok"), st)
             ELSE Result([c EXCEPT !.items = captionItems, !.pc = "gc_hGetAll"], st)
    [] c.pc = "gc_hGetAll" ->
         LET captionData == st.caption[<<c.post, Head(c.items).member>>]
         IN  IF ~CaptionExists(captionData)
             THEN IF Len(c.items) = 1
                  THEN Result([Done(c, "ok") EXCEPT !.items = <<>>], st)
                  ELSE Result([c EXCEPT !.items = Tail(@)], st)
             ELSE Result([c EXCEPT !.caption = fromRedisDataType(captionData),
                                   !.pc = "gc_zRangeUpvotes"], st)
    [] c.pc = "gc_zRangeUpvotes" ->
         LET upvotesList == ZRange(st.upvotes[<<c.post, Head(c.items).member>>],
                                   0, -1, UserRank)
             item == [ caption     |-> c.caption,
                       upvotes     |-> Len(upvotesList),
                       userUpvoted |-> userHasUpvoted(upvotesList, c.user) ]
             more == [c EXCEPT !.items = Tail(@), !.out = Append(@, item),
                               !.caption = NoCaption, !.pc = "gc_hGetAll"]
         IN  IF Len(c.items) = 1
             THEN Result(Done(more, "ok"), st)
             ELSE Result(more, st)

\* ------------------------------------------------------ PostsServices
ImageOf(p) == "img"
JobOf(p) == IF p = "p1" THEN "job1" ELSE "job2"

\* Variant of createPost that never writes the jobId field.
createPostWithoutJob(st, post) ==
  [st EXCEPT !.post[post.id] =
     [ id |-> post.id, imageUrl |-> post.imageUrl, jobId |-> "" ]]

\* createPost(redis, post): one hSet of the post hash; the jobId field is
\* written only when the post has one.
createPost(st, post) ==
  [st EXCEPT !.post[post.id] =
     [ id |-> post.id, imageUrl |-> post.imageUrl,
       jobId |-> IF post.jobId = Undefined THEN "" ELSE post.jobId ]]

\* The null getPost returns for a post that has no record.
NullPost == [ id |-> Undefined, imageUrl |-> Undefined, jobId |-> Undefined ]

\* getPost(redis, postId): one hGetAll; a jobId field that was never written
\* reads back as undefined.
getPost(st, postId) ==
  LET postData == st.post[postId]
  IN  IF ~PostExists(postData) THEN NullPost
      ELSE [ id |-> postData.id, imageUrl |-> postData.imageUrl,
             jobId |-> OrUndefined(postData.jobId) ]

\* Variant of purgePostStep that reports the post but never deletes its key.
purgePostStepKeepsRecord(c, st, next) ==
  Result([c EXCEPT !.pc = next, !.has = (getPost(st, c.post) # NullPost),
                   !.job = getPost(st, c.post).jobId], st)

\* One awaited store command of purgePost(redis, c.post): getPost, then del;
\* c.has is the status it returns and c.job the jobId.  A command that throws
\* (c.fault) is caught inside purgePost, which then returns { status: false }.
\* The caller goes on at `next`.
purgePostStep(c, st, next) ==
  CASE c.pc = "pp_hGetAll" ->
         IF c.fault = "ppGet"
         THEN Result([c EXCEPT !.pc = next, !.has = FALSE, !.job = Undefined], st)
         ELSE IF getPost(st, c.post) = NullPost
         THEN Result([c EXCEPT !.pc = next, !.has = FALSE, !.job = Undefined], st)
         ELSE Result([c EXCEPT !.pc = "pp_del",
                               !.job = getPost(st, c.post).jobId], st)
    [] c.pc = "pp_del" ->
         IF c.fault = "ppDel"
         THEN Result([c EXCEPT !.pc = next, !.has = FALSE, !.job = Undefined], st)
         ELSE Result([c EXCEPT !.pc = next, !.has = TRUE],
                     [st EXCEPT !.post[c.post] = EmptyPostHash])

\* The clean-up that ends the settlement job: purgePost, then
\* purgeCaptionsAndUpvotes.
purgeStep(c, st) ==
  IF c.pc \in {"pp_hGetAll", "pp_del"}
  THEN purgePostStep(c, st, "pc_zRange")
  ELSE purgeCaptionsAndUpvotesStep(c, st)

\* ------------------------------------------- server handlers (index.ts)
\* A handler step's result when it also acts outside Redis.
Outcome(c, st, pf) == [call |-> c, store |-> st, platform |-> pf]

\* A service step, which leaves everything outside Redis alone.
Lift(r, pf) == [call |-> r.call, store |-> r.store, platform |-> pf]

\* The scheduler job runJob creates for post p as its n-th job.
Job(p, n) == [ id |-> JobOf(p), postId |-> p, imageUrl |-> ImageOf(p), serial |-> n ]

\* The create-post form handler for the new Reddit post p: submitCustomPost,
\* scheduler.runJob (sched: "ok" or "throws"), createPost (save: "ok" or
\* "throws"), and post.remove() when the record could not be saved.
createPostForm(st, pf, p, sched, save) ==
  LET jobId == IF sched = "ok" THEN JobOf(p) ELSE Undefined
      pf1 == [pf EXCEPT !.posts[p] = "live"]
      pf2 == IF sched = "ok"
             THEN [pf1 EXCEPT !.pending = @ \cup {Job(p, pf.scheduled + 1)},
                              !.scheduled = @ + 1]
             ELSE pf1
  IN  IF save = "ok"
      THEN [ store |-> createPost(st, [id |-> p, imageUrl |-> ImageOf(p), jobId |-> jobId]),
             platform |-> pf2 ]
      ELSE [ store |-> st, platform |-> [pf2 EXCEPT !.posts[p] = "removed"] ]

\* Variant of NextCaption that gives up on the captions left after a failure.
NextCaptionStopOnFailure(i, outcome) == IF outcome = "ok" THEN i + 1 ELSE TopCount

\* The index the publishing loop goes on with after caption i: `continue`
\* and the catch block both go on with the next caption.
NextCaption(i, outcome) == i + 1

\* purgeCaptionsAndUpvotes as the last call of a handler; a purge that has
\* deleted the post record and returned is noted in platform.purged.
purgeTail(c, st, pf) ==
  LET r == purgeCaptionsAndUpvotesStep(c, st)
  IN  Outcome(r.call, r.store,
              IF r.call.pc = "done" /\ r.call.has
              THEN [pf EXCEPT !.purged = @ \cup {c.post}] ELSE pf)

\* One awaited call of the post-best-captions job handler for post c.post.
\* c.fault names the call that fails in this run ("none": no call fails),
\* c.publish how publishing each caption ends.
postBestCaptionsStep(c, st, pf) ==
  CASE c.pc = "jb_getPost" ->
         IF getPost(st, c.post) = NullPost
         THEN Outcome(Done(c, "notFound"), st, pf)
         ELSE Outcome([c EXCEPT !.pc = "gt_zCard", !.running = TRUE], st, pf)
    [] c.pc \in {"gt_zCard", "gt_zRange", "gt_hGetAll"} ->
         IF c.fault = "top"
         THEN Outcome(Done(c, "topError"), st, pf)
         ELSE LET r == getTopCaptionsStep(c, st)
              IN  IF r.call.pc = "done"
                  THEN Outcome([r.call EXCEPT !.pc = "jb_settings", !.ret = "none"], st, pf)
                  ELSE Lift(r, pf)
    [] c.pc = "jb_settings" ->
         IF c.fault = "keyMissing"
         THEN Outcome(Done(c, c.fault), st, pf)
         ELSE Outcome([c EXCEPT !.pc = "jb_remove"], st, pf)
    [] c.pc = "jb_remove" ->
         Outcome([c EXCEPT !.n = 0,
                           !.pc = IF Len(c.out) = 0 THEN "pp_hGetAll" ELSE "jb_publish"],
                 st,
                 [pf EXCEPT !.removals = @ + 1,
                            !.posts[c.post] = IF @ = "live" THEN "removed" ELSE @])
    [] c.pc = "jb_publish" ->
         LET caption == c.out[c.n + 1]
             outcome == c.publish[caption.id]
             i       == NextCaption(c.n, outcome)
         IN  Outcome([c EXCEPT !.n = i, !.tried = Append(@, caption.id),
                               !.pc = IF i >= Len(c.out) THEN "pp_hGetAll" ELSE "jb_publish"],
                     st,
                     IF outcome = "ok"
                     THEN [pf EXCEPT !.published =
                             Append(@, [post |-> c.post, id |-> caption.id])]
                     ELSE pf)
    [] c.pc \in {"pp_hGetAll", "pp_del"} ->
         Lift(purgePostStep(c, st, "pc_zRange"), pf)
    [] c.pc \in {"pc_zRange", "pc_delCaption", "pc_delUpvotes", "pc_delKey"} ->
         purgeTail(c, st, pf)

\* One awaited call of the post-delete trigger handler for post c.post.
postDeleteStep(c, st, pf) ==
  CASE c.pc \in {"pp_hGetAll", "pp_del"} ->
         LET r == purgePostStep(c, st, "tr_cancelJob")
         IN  IF r.call.pc = "tr_cancelJob" /\ r.call.job = Undefined
             THEN Outcome([r.call EXCEPT !.pc = "pc_zRange"], r.store, pf)
             ELSE Lift(r, pf)
    [] c.pc = "tr_cancelJob" ->
         IF c.fault = "cancel"
         THEN Outcome([c EXCEPT !.pc = "pc_zRange"], st, pf)
         ELSE Outcome([c EXCEPT !.pc = "pc_zRange"], st,
                      [pf EXCEPT !.pending = { j \in @ : j.id # c.job }])
    [] c.pc \in {"pc_zRange", "pc_delCaption", "pc_delUpvotes", "pc_delKey"} ->
         purgeTail(c, st, pf)

\* GET /api/post/image: 404 when getPost finds no record.
postImageRoute(st, postId) ==
  IF getPost(st, postId) = NullPost
  THEN [ code |-> 404, status |-> "error", imageUrl |-> Undefined ]
  ELSE [ code |-> 200, status |-> "success", imageUrl |-> getPost(st, postId).imageUrl ]

\* res.status(code).json(...): the route answers and ends; every answer but
\* 200 carries status "error".
Respond(c, code) ==
  [c EXCEPT !.pc = "done", !.code = code, !.ret = IF code = 200 THEN @ ELSE "error"]

\* The answer of a route whose service call has returned or thrown: the catch
\* block of the route answers 500 to every error the service throws.
RespondTo(r) ==
  IF r.call.pc = "done"
  THEN Result(Respond(r.call, IF r.call.ret = "error" THEN 500 ELSE 200), r.store)
  ELSE r

\* One awaited call of POST /api/captions/create; c.post is context.postId
\* and c.caption the request body.
captionsCreateRouteStep(c, st) ==
  IF c.pc = "rt_context"
  THEN IF c.post = Undefined
       THEN Result(Respond(c, 400), st)
       ELSE RespondTo(createCaptionStep([c EXCEPT !.pc = "cr_exists"], st))
  ELSE RespondTo(createCaptionStep(c, st))

\* One awaited call of POST /api/captions/:captionId/upvote; c.user is what
\* reddit.getCurrentUsername() returns.  The captionId is part of the path,
\* so a request that reaches the route has one.
captionsUpvoteRouteStep(c, st) ==
  IF c.pc = "rt_username"
  THEN IF c.fault = "username" THEN Result(Respond(c, 500), st)
       ELSE IF c.post = Undefined THEN Result(Respond(c, 400), st)
       ELSE IF c.user = Undefined THEN Result(Respond(c, 401), st)
       ELSE Result([c EXCEPT !.pc = "up_exists"], st)
  ELSE RespondTo(upvoteCaptionStep(c, st))

\* One awaited call of GET /api/captions.
captionsRouteStep(c, st) ==
  IF c.pc = "rt_username"
  THEN IF c.fault = "username" THEN Result(Respond(c, 500), st)
       ELSE IF c.post = Undefined THEN Result(Respond(c, 400), st)
       ELSE IF c.user = Undefined THEN Result(Respond(c, 401), st)
       ELSE Result([c EXCEPT !.pc = "gc_zRange"], st)
  ELSE RespondTo(getCaptionsWithUpvotesStep(c, st))

\* The awaited call of GET /api/post/image.
postImageRouteStep(c, st) ==
  IF c.post = Undefined THEN Result(Respond(c, 400), st)
  ELSE IF c.fault = "getPost" THEN Result(Respond(c, 500), st)
  ELSE Result(Respond(c, postImageRoute(st, c.post).code), st)

\* ------------------------------------------------------------ scheduling
\* The next awaited command of the handler in a slot.
Step(c, st) ==
  CASE c.op = "create" -> createCaptionStep(c, st)
    [] c.op = "upvote" -> upvoteCaptionStep(c, st)
    [] c.op = "top"    -> getTopCaptionsStep(c, st)
    [] c.op = "purge"  -> purgeStep(c, st)
    [] c.op = "list"   -> getCaptionsWithUpvotesStep(c, st)
    [] c.op = "createRoute" -> captionsCreateRouteStep(c, st)
    [] c.op = "upvoteRoute" -> captionsUpvoteRouteStep(c, st)
    [] c.op = "listRoute"   -> captionsRouteStep(c, st)
    [] c.op = "imageRoute"  -> postImageRouteStep(c, st)

\* A handler run to its end with nothing else in between.
RECURSIVE Run(_, _)
Run(c, st) ==
  IF Finished(c) THEN Result(c, st)
  ELSE LET r == Step(c, st) IN Run(r.call, r.store)

\* The request body the client sends to POST /api/captions/create.
CaptionInput(u, t) ==
  [NoCaption EXCEPT !.username = u, !.topCaption = "text", !.createdAt = t]

BeginCreate(p, u, id, t) ==
  [Idle EXCEPT !.op = "create", !.pc = "cr_exists", !.post = p, !.id = id,
               !.user = u, !.caption = CaptionInput(u, t)]

BeginUpvote(p, id, u) ==
  [Idle EXCEPT !.op = "upvote", !.pc = "up_exists", !.post = p, !.id = id, !.user = u]

BeginTop(p) == [Idle EXCEPT !.op = "top", !.pc = "gt_zCard", !.post = p]

BeginPurge(p) == [Idle EXCEPT !.op = "purge", !.pc = "pp_hGetAll", !.post = p]

BeginList(p, u) == [Idle EXCEPT !.op = "list", !.pc = "gc_zRange", !.post = p, !.user = u]

BeginJob(p, fault, publish) ==
  [Idle EXCEPT !.op = "job", !.pc = "jb_getPost", !.post = p,
               !.fault = fault, !.publish = publish]

BeginTrigger(p, fault) ==
  [Idle EXCEPT !.op = "trigger", !.pc = "pp_hGetAll", !.post = p, !.fault = fault]

\* The next awaited call of any handler.
Exec(c, st, pf) ==
  CASE c.op = "job"     -> postBestCaptionsStep(c, st, pf)
    [] c.op = "trigger" -> postDeleteStep(c, st, pf)
    [] OTHER            -> Lift(Step(c, st), pf)

RECURSIVE RunAll(_, _, _)
RunAll(c, st, pf) ==
  IF Finished(c) THEN Outcome(c, st, pf)
  ELSE LET r == Exec(c, st, pf) IN RunAll(r.call, r.store, r.platform)

\* The create-post form is submitted for a new Reddit post p.
SubmitForm(p, sched, save) ==
  /\ p \notin launched
  /\ launched' = launched \cup {p}
  /\ LET r == createPostForm(store, platform, p, sched, save)
     IN  /\ store' = r.store
         /\ platform' = r.platform
  /\ UNCHANGED <<calls, issued, nCreates, nToggles, nPurges>>

\* The form handler on the path where the job is scheduled and the record saved.
CreatePost(p) == SubmitForm(p, "ok", "ok")

\* ---- interleaved execution: a request starts in a free slot and issues its
\* ---- first command; every later command is a step of its own.
Start(i, c) ==
  /\ Finished(calls[i])
  /\ LET r == Step(c, store)
     IN  /\ calls' = [calls EXCEPT ![i] = r.call]
         /\ store' = r.store

CallCreate(i, p, u, id) ==
  /\ nCreates < MaxConcCreates
  /\ id \notin issued
  /\ Start(i, BeginCreate(p, u, id, nCreates + 1))
  /\ issued' = issued \cup {id}
  /\ nCreates' = nCreates + 1
  /\ UNCHANGED <<platform, launched, nToggles, nPurges>>

CallUpvote(i, p, id, u) ==
  /\ nToggles < MaxConcToggles
  /\ id \in issued        \* a client learns caption ids from the listing only
  /\ Start(i, BeginUpvote(p, id, u))
  /\ nToggles' = nToggles + 1
  /\ UNCHANGED <<platform, issued, launched, nCreates, nPurges>>

CallTop(i, p) ==
  /\ Start(i, BeginTop(p))
  /\ UNCHANGED <<platform, issued, launched, nCreates, nToggles, nPurges>>

CallPurge(i, p) ==
  /\ p \in launched
  /\ nPurges < MaxConcPurges
  /\ Start(i, BeginPurge(p))
  /\ nPurges' = nPurges + 1
  /\ UNCHANGED <<platform, issued, launched, nCreates, nToggles>>

Continue(i) ==
  /\ ~Finished(calls[i])
  /\ LET r == Step(calls[i], store)
     IN  /\ calls' = [calls EXCEPT ![i] = r.call]
         /\ store' = r.store
  /\ UNCHANGED <<platform, issued, launched, nCreates, nToggles, nPurges>>

Next ==
  \/ \E p \in MainPosts : CreatePost(p)
  \/ \E i \in Procs, p \in MainPosts, u \in ConcUsers, id \in Ids : CallCreate(i, p, u, id)
  \/ \E i \in Procs, p \in MainPosts, id \in Ids, u \in ConcUsers : CallUpvote(i, p, id, u)
  \/ \E i \in Procs, p \in MainPosts : CallTop(i, p)
  \/ \E i \in Procs, p \in MainPosts : CallPurge(i, p)
  \/ \E i \in Procs : Continue(i)

Spec == Init /\ [][Next]_vars

\* ---- one request at a time: each handler runs to its end in one action.
Whole(c) ==
  /\ \A i \in Procs : Finished(calls[i])
  /\ LET r == Run(c, store)
     IN  /\ calls' = [calls EXCEPT ![1] = r.call]
         /\ store' = r.store

WholeCreate(p, u, id) ==
  /\ id \notin issued
  /\ Whole(BeginCreate(p, u, id, nCreates + 1))
  /\ issued' = issued \cup {id}
  /\ nCreates' = nCreates + 1
  /\ UNCHANGED <<platform, launched, nToggles, nPurges>>

WholeUpvote(p, id, u) ==
  /\ id \in issued        \* a client learns caption ids from the listing only
  /\ Whole(BeginUpvote(p, id, u))
  /\ nToggles' = nToggles + 1
  /\ UNCHANGED <<platform, issued, launched, nCreates, nPurges>>

SeqCreate(p, u, id) == nCreates < MaxCreates /\ WholeCreate(p, u, id)

SeqUpvote(p, id, u) == nToggles < MaxToggles /\ WholeUpvote(p, id, u)

SeqTop(p) ==
  /\ Whole(BeginTop(p))
  /\ UNCHANGED <<platform, issued, launched, nCreates, nToggles, nPurges>>

SeqPurge(p) ==
  /\ p \in launched
  /\ nPurges < MaxPurges
  /\ Whole(BeginPurge(p))
  /\ nPurges' = nPurges + 1
  /\ UNCHANGED <<platform, issued, launched, nCreates, nToggles>>

SeqNext ==
  \/ \E p \in MainPosts : CreatePost(p)
  \/ \E p \in MainPosts, u \in Users, id \in 1..MaxSeqIds : SeqCreate(p, u, id)
  \/ \E p \in MainPosts, id \in Ids, u \in Users : SeqUpvote(p, id, u)
  \/ \E p \in MainPosts : SeqTop(p)
  \/ \E p \in MainPosts : SeqPurge(p)

SeqSpec == Init /\ [][SeqNext]_vars

\* ---- upvoteCaption calls in flight together on entries whose creation has
\* ---- finished: only the commands of upvoteCaption calls interleave.
ToggleCreate(p, u, id) == nCreates < MaxConcCreates /\ WholeCreate(p, u, id)

ToggleNext ==
  \/ \E p \in MainPosts : CreatePost(p)
  \/ \E p \in MainPosts, u \in ConcUsers, id \in Ids : ToggleCreate(p, u, id)
  \/ \E i \in Procs, p \in MainPosts, id \in Ids, u \in ConcUsers : CallUpvote(i, p, id, u)
  \/ \E i \in Procs : Continue(i)

ToggleSpec == Init /\ [][ToggleNext]_vars

\* ---- the life of a contest: form, captions and votes one request at a
\* ---- time, the settlement job (delivered at least once), the post-delete
\* ---- trigger; calls to the store, the settings, the renderer, Reddit and
\* ---- the scheduler may fail.
JobFaults == {"none", "top", "keyMissing", "ppDel"}
TriggerFaults == {"none", "ppGet", "ppDel", "cancel"}
PublishOutcomes ==
  { f \in [Ids -> Outcomes] :
      Cardinality({ id \in Ids : f[id] # "ok" }) <= MaxPublishFailures }

\* What can go wrong in one run of the job: one of its calls to the store or
\* the settings fails, or the publishing of some of the captions does.
JobRuns ==
  { r \in [fault : JobFaults, publish : PublishOutcomes] :
      /\ r.fault = "none" \/ r.publish = NoFailures
      /\ \A id \in Ids \ SettleIds : r.publish[id] = "ok" }

\* A handler of index.ts run to its end with nothing else in between.
WholeHandler(c, pf) ==
  /\ \A i \in Procs : Finished(calls[i])
  /\ LET r == RunAll(c, store, pf)
     IN  /\ calls' = [calls EXCEPT ![1] = r.call]
         /\ store' = r.store
         /\ platform' = r.platform
  /\ UNCHANGED <<issued, launched, nCreates, nToggles, nPurges>>

\* The scheduler delivers a pending job at its runAt.
FireJob(j, fault, publish) ==
  /\ j \in platform.pending
  /\ WholeHandler(BeginJob(j.postId, fault, publish),
                  [platform EXCEPT !.pending = @ \ {j}, !.delivered = @ \cup {j},
                                   !.deliveries = @ + 1])

\* The scheduler delivers a job again that it has delivered before.
RedeliverJob(j, fault, publish) ==
  /\ j \in platform.delivered
  /\ platform.deliveries < MaxDeliveries
  /\ WholeHandler(BeginJob(j.postId, fault, publish),
                  [platform EXCEPT !.deliveries = @ + 1])

\* The Reddit post is deleted and the platform delivers the trigger.
PostDelete(p, fault) ==
  /\ platform.posts[p] \in {"live", "removed"}
  /\ WholeHandler(BeginTrigger(p, fault), [platform EXCEPT !.posts[p] = "deleted"])

SettleCreate(p, u, id) == nCreates < MaxSettleCreates /\ WholeCreate(p, u, id)

SettleUpvote(p, id, u) == nToggles < MaxSettleToggles /\ WholeUpvote(p, id, u)

AllJobs == { Job(p, n) : p \in Posts, n \in 1..Cardinality(Posts) }

SettleNext ==
  \/ \E p \in MainPosts, sched \in {"ok", "throws"}, save \in {"ok", "throws"} :
       SubmitForm(p, sched, save)
  \/ \E p \in MainPosts, u \in SettleAuthors, id \in SettleIds : SettleCreate(p, u, id)
  \/ \E p \in MainPosts, id \in Ids, u \in SettleUsers : SettleUpvote(p, id, u)
  \/ \E j \in AllJobs, r \in JobRuns : FireJob(j, r.fault, r.publish)
  \/ \E j \in AllJobs, r \in JobRuns : RedeliverJob(j, r.fault, r.publish)
  \/ \E p \in MainPosts, fault \in TriggerFaults : PostDelete(p, fault)

SettleSpec == Init /\ [][SettleNext]_vars

\* ---- one request at a time on a contest that collects more entries than
\* ---- the settlement publishes, so that getTopCaptions has to cut.
RankCreate(p, u, id) == nCreates < MaxRankCreates /\ WholeCreate(p, u, id)

RankUpvote(p, id, u) == nToggles < MaxRankToggles /\ WholeUpvote(p, id, u)

RankNext ==
  \/ \E p \in MainPosts : CreatePost(p)
  \/ \E p \in MainPosts, u \in RankAuthors, id \in Ids : RankCreate(p, u, id)
  \/ \E p \in MainPosts, id \in Ids, u \in RankUsers : RankUpvote(p, id, u)
  \/ \E p \in MainPosts : SeqTop(p)

RankSpec == Init /\ [][RankNext]_vars

\* ---- the settlement of a contest of up to four entries, beside a second
\* ---- contest that holds an entry; one request at a time, no call fails.
PublishIds == {1, 2, 3, 4}   \* the values randomUUID() may return in PublishSpec

\* The second contest is set up before the main one: its form is submitted
\* first and it receives its entry before the main contest exists.
PublishOtherPost(p) == launched = {} /\ CreatePost(p)

PublishOtherCreate(p, u, id) ==
  /\ nCreates = 0
  /\ launched \cap MainPosts = {}
  /\ WholeCreate(p, u, id)

PublishPost(p) ==
  /\ \A q \in launched : store.captions[q] # {}
  /\ CreatePost(p)

PublishCreate(p, u, id) == nCreates < MaxPublishCreates /\ WholeCreate(p, u, id)

PublishUpvote(p, id, u) == nToggles < MaxPublishToggles /\ WholeUpvote(p, id, u)

\* The settlement job of the main contest, every call succeeding.
PublishSettle(j) == j.postId \in MainPosts /\ FireJob(j, "none", NoFailures)

PublishNext ==
  \/ \E p \in MainPosts : PublishPost(p)
  \/ \E p \in Posts \ MainPosts : PublishOtherPost(p)
  \/ \E p \in MainPosts, u \in RankAuthors, id \in PublishIds : PublishCreate(p, u, id)
  \/ \E p \in Posts \ MainPosts, u \in RankAuthors, id \in PublishIds :
       PublishOtherCreate(p, u, id)
  \/ \E p \in MainPosts, id \in PublishIds, u \in RankUsers : PublishUpvote(p, id, u)
  \/ \E j \in AllJobs : PublishSettle(j)

PublishSpec == Init /\ [][PublishNext]_vars

\* ---- the HTTP API on two contests, one request at a time: requests may
\* ---- lack the post id or the user, carry an id or no text, and a store
\* ---- command of createCaption may fail.
ApiAuthors == {"A"}       \* the users submitting captions in ApiSpec
ApiUsers == {"A", "B"}    \* the users voting and listing in ApiSpec
ApiIds == {1, 2}          \* the values randomUUID() may return in ApiSpec
CreateFaults == {"none", "cr_hSet", "cr_zAddCaptions", "cr_zAddUpvotes"}
RouteDefects == {"none", "noPost", "noUser", "username"}
ImageDefects == {"none", "noPost", "getPost"}

\* The create requests: well-formed, or off in one respect.
CreateRequests ==
  { r \in [noPost : BOOLEAN, clientId : ApiIds \cup {UndefId},
           text : {"text", Undefined}, fault : CreateFaults] :
      Cardinality({ x \in {"post", "id", "text", "fault"} :
                      \/ x = "post" /\ r.noPost
                      \/ x = "id" /\ r.clientId # UndefId
                      \/ x = "text" /\ r.text = Undefined
                      \/ x = "fault" /\ r.fault # "none" }) <= 1 }

BeginCreateRoute(p, u, id, t, r) ==
  [Idle EXCEPT !.op = "createRoute", !.pc = "rt_context",
               !.post = IF r.noPost THEN Undefined ELSE p,
               !.id = id, !.user = u, !.fault = r.fault,
               !.caption = [CaptionInput(u, t) EXCEPT !.id = r.clientId,
                                                      !.topCaption = r.text]]

BeginRoute(op, pc, p, id, u, defect) ==
  [Idle EXCEPT !.op = op, !.pc = pc,
               !.post = IF defect = "noPost" THEN Undefined ELSE p,
               !.id = id,
               !.user = IF defect = "noUser" THEN Undefined ELSE u,
               !.fault = IF defect \in {"username", "getPost"} THEN defect ELSE "none"]

ApiCreate(p, u, id, r) ==
  /\ nCreates < MaxApiCreates
  /\ id \notin issued
  /\ r.clientId = UndefId \/ r.clientId \in issued  \* an id the client has seen
  /\ Whole(BeginCreateRoute(p, u, id, nCreates + 1, r))
  /\ issued' = issued \cup {id}
  /\ nCreates' = nCreates + 1
  /\ UNCHANGED <<platform, launched, nToggles, nPurges>>

ApiUpvote(p, id, u, defect) ==
  /\ nToggles < MaxApiToggles
  /\ id \in issued
  /\ Whole(BeginRoute("upvoteRoute", "rt_username", p, id, u, defect))
  /\ nToggles' = nToggles + 1
  /\ UNCHANGED <<platform, issued, launched, nCreates, nPurges>>

ApiList(p, u, defect) ==
  /\ Whole(BeginRoute("listRoute", "rt_username", p, EmptyId, u, defect))
  /\ UNCHANGED <<platform, issued, launched, nCreates, nToggles, nPurges>>

ApiPurge(p) ==
  /\ p \in launched
  /\ nPurges < MaxApiPurges
  /\ Whole(BeginPurge(p))
  /\ nPurges' = nPurges + 1
  /\ UNCHANGED <<platform, issued, launched, nCreates, nToggles>>

ApiImage(p, defect) ==
  /\ Whole(BeginRoute("imageRoute", "rt_context", p, EmptyId, "", defect))
  /\ UNCHANGED <<platform, issued, launched, nCreates, nToggles, nPurges>>

\* The well-formed create request.
PlainCreate == [noPost |-> FALSE, clientId |-> UndefId, text |-> "text", fault |-> "none"]

\* The second contest receives well-formed requests only.
ApiNext ==
  \/ \E p \in Posts : CreatePost(p)
  \/ \E p \in MainPosts, u \in ApiAuthors, id \in ApiIds, r \in CreateRequests :
       ApiCreate(p, u, id, r)
  \/ \E p \in Posts \ MainPosts, u \in ApiAuthors, id \in ApiIds :
       ApiCreate(p, u, id, PlainCreate)
  \/ \E p \in MainPosts, id \in ApiIds, u \in ApiUsers, defect \in RouteDefects :
       ApiUpvote(p, id, u, defect)
  \/ \E p \in MainPosts, u \in ApiUsers, defect \in RouteDefects : ApiList(p, u, defect)
  \/ \E p \in Posts \ MainPosts, u \in ApiUsers : ApiList(p, u, "none")
  \/ \E p \in MainPosts, defect \in ImageDefects : ApiImage(p, defect)
  \/ \E p \in MainPosts : SeqTop(p)
  \/ \E p \in MainPosts : ApiPurge(p)

ApiSpec == Init /\ [][ApiNext]_vars

\* ---- handlers of index.ts in flight together: the settlement job in slot 1,
\* ---- a second delivery of it or the post-delete trigger in slot 2, each
\* ---- awaited call a step of its own; create, getTopCaptions and the
\* ---- listing run in slot 1 between the steps of slot 2.
OverlapAuthors == {"A"}   \* the users submitting captions in OverlapSpec
OverlapIds == {1, 2}      \* the values randomUUID() may return in OverlapSpec
OverlapFaults == {"none", "ppDel"}

\* A handler starts in a free slot with its first awaited call.
StartHandler(i, c, pf) ==
  /\ Finished(calls[i])
  /\ LET r == Exec(c, store, pf)
     IN  /\ calls' = [calls EXCEPT ![i] = r.call]
         /\ store' = r.store
         /\ platform' = r.platform
  /\ UNCHANGED <<issued, launched, nCreates, nToggles, nPurges>>

OverlapFire(j) ==
  /\ j \in platform.pending
  /\ StartHandler(1, BeginJob(j.postId, "none", NoFailures),
                  [platform EXCEPT !.pending = @ \ {j}, !.delivered = @ \cup {j},
                                   !.deliveries = @ + 1])

OverlapRedeliver(j) ==
  /\ j \in platform.delivered
  /\ platform.deliveries < MaxOverlapDeliveries
  /\ StartHandler(2, BeginJob(j.postId, "none", NoFailures),
                  [platform EXCEPT !.deliveries = @ + 1])

OverlapDelete(p, fault) ==
  /\ platform.posts[p] \in {"live", "removed"}
  /\ StartHandler(2, BeginTrigger(p, fault), [platform EXCEPT !.posts[p] = "deleted"])

\* The next awaited call of the handler in slot i.
OverlapStep(i) ==
  /\ ~Finished(calls[i])
  /\ LET r == Exec(calls[i], store, platform)
     IN  /\ calls' = [calls EXCEPT ![i] = r.call]
         /\ store' = r.store
         /\ platform' = r.platform
  /\ UNCHANGED <<issued, launched, nCreates, nToggles, nPurges>>

\* A service call run to its end in slot 1, whatever slot 2 is doing.
Between(c) ==
  /\ Finished(calls[1])
  /\ LET r == Run(c, store)
     IN  /\ calls' = [calls EXCEPT ![1] = r.call]
         /\ store' = r.store

OverlapCreate(p, u, id) ==
  /\ nCreates < MaxOverlapCreates
  /\ id \notin issued
  /\ Between(BeginCreate(p, u, id, nCreates + 1))
  /\ issued' = issued \cup {id}
  /\ nCreates' = nCreates + 1
  /\ UNCHANGED <<platform, launched, nToggles, nPurges>>

OverlapTop(p) ==
  /\ Between(BeginTop(p))
  /\ UNCHANGED <<platform, issued, launched, nCreates, nToggles, nPurges>>

OverlapList(p, u) ==
  /\ Between(BeginList(p, u))
  /\ UNCHANGED <<platform, issued, launched, nCreates, nToggles, nPurges>>

OverlapNext ==
  \/ \E p \in MainPosts : CreatePost(p)
  \/ \E p \in MainPosts, u \in OverlapAuthors, id \in OverlapIds : OverlapCreate(p, u, id)
  \/ \E p \in MainPosts : OverlapTop(p)
  \/ \E p \in MainPosts, u \in OverlapAuthors : OverlapList(p, u)
  \/ \E j \in AllJobs : OverlapFire(j)
  \/ \E j \in AllJobs : OverlapRedeliver(j)
  \/ \E p \in MainPosts, fault \in OverlapFaults : OverlapDelete(p, fault)
  \/ \E i \in Procs : OverlapStep(i)

OverlapSpec == Init /\ [][OverlapNext]_vars

\* ---- getTopCaptions in slot 2, each of its store commands a step of its
\* ---- own, while create and upvote requests run in slot 1 between them.
SnapshotVoters == {"B"}   \* the users voting in SnapshotSpec

SnapshotUpvote(p, id, u) ==
  /\ nToggles < MaxSnapshotToggles
  /\ id \in issued
  /\ Between(BeginUpvote(p, id, u))
  /\ nToggles' = nToggles + 1
  /\ UNCHANGED <<platform, issued, launched, nCreates, nPurges>>

\* getTopCaptions begins; the call remembers the ranking set it starts from.
SnapshotTop(p) ==
  /\ Finished(calls[2])
  /\ StartHandler(2, [BeginTop(p) EXCEPT !.start = [ranking |-> store.captions[p],
                                                    toggles |-> nToggles]],
                  platform)

SnapshotNext ==
  \/ \E p \in MainPosts : CreatePost(p)
  \/ \E p \in MainPosts, u \in OverlapAuthors, id \in OverlapIds : OverlapCreate(p, u, id)
  \/ \E p \in MainPosts, id \in OverlapIds, u \in SnapshotVoters : SnapshotUpvote(p, id, u)
  \/ \E p \in MainPosts : SnapshotTop(p)
  \/ OverlapStep(2)

SnapshotSpec == Init /\ [][SnapshotNext]_vars

\* ---- purgeCaptionsAndUpvotes on a contest whose entries were created and
\* ---- upvoted one request at a time; a store command of createCaption or of
\* ---- the purge may fail.
PurgeAuthors == {"A", "B"}
PurgeIds == {1, 2}
PurgeFaults == {"none", "pc_zRange", "pc_delCaption", "pc_delUpvotes", "pc_delKey"}

BeginPurgeCaptions(p, fault) ==
  [Idle EXCEPT !.op = "purge", !.pc = "pc_zRange", !.post = p, !.fault = fault]

PurgeCreate(p, u, id, fault) ==
  /\ nCreates < MaxPurgeCreates
  /\ id \notin issued
  /\ Whole([BeginCreate(p, u, id, nCreates + 1) EXCEPT !.fault = fault])
  /\ issued' = issued \cup {id}
  /\ nCreates' = nCreates + 1
  /\ UNCHANGED <<platform, launched, nToggles, nPurges>>

PurgeUpvote(p, id, u) == nToggles < MaxPurgeToggles /\ WholeUpvote(p, id, u)

PurgeCaptions(p, fault) ==
  /\ p \in launched
  /\ nPurges < MaxPurgeRuns
  /\ Whole(BeginPurgeCaptions(p, fault))
  /\ nPurges' = nPurges + 1
  /\ UNCHANGED <<platform, issued, launched, nCreates, nToggles>>

PurgeNext ==
  \/ \E p \in MainPosts : CreatePost(p)
  \/ \E p \in MainPosts, u \in PurgeAuthors, id \in PurgeIds, fault \in CreateFaults :
       PurgeCreate(p, u, id, fault)
  \/ \E p \in MainPosts, id \in PurgeIds, u \in PurgeAuthors : PurgeUpvote(p, id, u)
  \/ \E p \in MainPosts, fault \in PurgeFaults : PurgeCaptions(p, fault)

PurgeSpec == Init /\ [][PurgeNext]_vars

\* ---- two contests side by side, one request at a time: entries are
\* ---- created, upvoted and purged in either of them.
FrameAuthors == {"A"}
FrameUsers == {"A", "B"}
FrameIds == {1, 2, 3}

FrameCreate(p, u, id) == nCreates < MaxFrameCreates /\ WholeCreate(p, u, id)

FrameUpvote(p, id, u) == nToggles < MaxFrameToggles /\ WholeUpvote(p, id, u)

FramePurge(p) ==
  /\ p \in launched
  /\ nPurges < MaxFramePurges
  /\ Whole(BeginPurge(p))
  /\ nPurges' = nPurges + 1
  /\ UNCHANGED <<platform, issued, launched, nCreates, nToggles>>

FrameNext ==
  \/ \E p \in Posts : CreatePost(p)
  \/ \E p \in Posts, u \in FrameAuthors, id \in FrameIds : FrameCreate(p, u, id)
  \/ \E p \in Posts, id \in FrameIds, u \in FrameUsers : FrameUpvote(p, id, u)
  \/ \E p \in Posts : FramePurge(p)

FrameSpec == Init /\ [][FrameNext]_vars

\* ---- the rendering backend (src/backend): POST /generateCaption requests
\* ---- in both slots, under each configuration of the server.
\* The values of process.env.API_KEY: unset, or a string.
ApiKeys == {Undefined, "", "k1", "k2"}
\* The values of req.headers['x-api-key']: absent, or a string.
KeyHeaders == {Undefined, "", "k1", "k2"}
RenderFaults == {"none", "render"}
RenderAuthors == {"A", "B"}

\* a != b of JavaScript on operands that are strings or undefined: undefined
\* equals undefined and no string, strings are compared by value.
NotLooselyEqual(a, b) == a # b

\* One step of the /generateCaption handler: the key check, then the
\* rendering, which answers with the image or throws (c.fault = "render").
generateCaptionStep(c, env) ==
  CASE c.pc = "gn_auth" ->
         IF NotLooselyEqual(c.key, env.API_KEY)
         THEN Respond(c, 403)
         ELSE [c EXCEPT !.pc = "gn_render"]
    [] c.pc = "gn_render" ->
         IF c.fault = "render"
         THEN Done(c, "error")
         ELSE [Respond(c, 200) EXCEPT !.out = <<c.caption>>, !.ret = "ok"]

BeginGenerateCaption(u, key, fault) ==
  [Idle EXCEPT !.op = "generateCaption", !.pc = "gn_auth", !.user = u,
               !.caption = CaptionInput(u, 0), !.key = key, !.fault = fault]

\* dotenv.config() at start-up: the environment is fixed before any request.
BackendInit ==
  /\ store = EmptyStore
  /\ calls = [i \in Procs |-> Idle]
  /\ issued = {}
  /\ launched = {}
  /\ nCreates = 0
  /\ nToggles = 0
  /\ nPurges = 0
  /\ \E k \in ApiKeys : platform = [EmptyPlatform EXCEPT !.apiKey = k]

GenerateCaption(i, u, key, fault) ==
  /\ Finished(calls[i])
  /\ calls' = [calls EXCEPT ![i] =
       generateCaptionStep(BeginGenerateCaption(u, key, fault),
                           [API_KEY |-> platform.apiKey])]
  /\ UNCHANGED <<store, platform, issued, launched, nCreates, nToggles, nPurges>>

Render(i) ==
  /\ calls[i].op = "generateCaption"
  /\ ~Finished(calls[i])
  /\ calls' = [calls EXCEPT ![i] =
       generateCaptionStep(calls[i], [API_KEY |-> platform.apiKey])]
  /\ UNCHANGED <<store, platform, issued, launched, nCreates, nToggles, nPurges>>

BackendNext ==
  \/ \E i \in Procs, u \in RenderAuthors, key \in KeyHeaders, fault \in RenderFaults :
       GenerateCaption(i, u, key, fault)
  \/ \E i \in Procs : Render(i)

BackendSpec == BackendInit /\ [][BackendNext]_vars

\* ---- toRedisDataType and fromRedisDataType on the captions createCaption
\* ---- stores: the caption is written as a hash, the hash is read back.
RoundTripIds == {1, 2}                     \* values of randomUUID()
RoundTripUsers == {"A", "B"}
RoundTripTexts == {Undefined, "", "text"}  \* absent, empty, some text
RoundTripFlags == {Undefined, "FALSE", "TRUE"}
RoundTripTimes == {0, 9, 10, 120}          \* Date.now() of the client

\* The captions createCaption hands to toRedisDataType: the request's
\* caption with the generated id.
RoundTripCaptions ==
  [ id : RoundTripIds, username : RoundTripUsers,
    topExtendedCaption : RoundTripTexts, bottomExtendedCaption : RoundTripTexts,
    topCaption : RoundTripTexts, bottomCaption : RoundTripTexts,
    topExtensionWhite : RoundTripFlags, bottomExtensionWhite : RoundTripFlags,
    createdAt : RoundTripTimes ]

RoundTripInit ==
  /\ store = EmptyStore
  /\ \E caption \in RoundTripCaptions :
       calls = [i \in Procs |->
                  IF i = 1
                  THEN [Idle EXCEPT !.op = "roundTrip", !.pc = "rt_write",
                                    !.post = "p1", !.id = caption.id,
                                    !.caption = caption]
                  ELSE Idle]
  /\ issued = {}
  /\ launched = {}
  /\ nCreates = 0
  /\ nToggles = 0
  /\ nPurges = 0
  /\ platform = EmptyPlatform

\* redis.hSet(captionKey, toRedisDataType(caption)).
WriteCaption ==
  /\ calls[1].pc = "rt_write"
  /\ store' = [store EXCEPT !.caption[<<calls[1].post, calls[1].id>>] =
                 toRedisDataType(calls[1].caption)]
  /\ calls' = [calls EXCEPT ![1].pc = "rt_read"]
  /\ UNCHANGED <<platform, issued, launched, nCreates, nToggles, nPurges>>

\* fromRedisDataType(await redis.hGetAll(captionKey)).
ReadCaption ==
  /\ calls[1].pc = "rt_read"
  /\ calls' = [calls EXCEPT ![1] =
       [Done(calls[1], "ok") EXCEPT
          !.out = <<fromRedisDataType(store.caption[<<calls[1].post, calls[1].id>>])>>]]
  /\ UNCHANGED <<store, platform, issued, launched, nCreates, nToggles, nPurges>>

RoundTripNext == WriteCaption \/ ReadCaption

RoundTripSpec == RoundTripInit /\ [][RoundTripNext]_vars

\* ---- the Countdown component (src/unnamed/part_001): mounted with a target
\* ---- timestamp, it recomputes the time left each time its interval fires.
\* Math.floor(n / d) for an integer n >= 0 and d > 0.
FloorDiv(n, d) == n \div d

\* Variant of FloorMod that leaves out the remainder operation.
FloorNoMod(n, d, m) == n \div d

\* Math.floor((n / d) % m) for an integer n >= 0: with n / d = q + r / d,
\* 0 <= r < d, the remainder (n / d) % m is (q % m) + r / d, whose floor is
\* q % m.
FloorMod(n, d, m) == (n \div d) % m

\* getTimeLeft(target) at the moment Date.now() returns now.
getTimeLeft(target, now) ==
  LET diff == target - now
  IN  IF diff <= 0 THEN NoTimeLeft
      ELSE [ total   |-> diff,
             days    |-> FloorDiv(diff, 1000 * 60 * 60 * 24),
             hours   |-> FloorMod(diff, 1000 * 60 * 60, 24),
             minutes |-> FloorMod(diff, 1000 * 60, 60),
             seconds |-> FloorMod(diff, 1000, 60) ]

\* What the component renders for a time left.
Shown(timeLeft) == IF timeLeft.total <= 0 THEN "finished" ELSE "remaining"

\* Target timestamps: now or past, and up to two days ahead, in ms.
CountdownTargets ==
  {0, 1, 999, 1000, 59999, 61001, 3599999, 3661001, 86399999, 86400000,
   90061001, 172800000}
\* Date.now() when the component is mounted.
MountTimes == {0, 1, 500}
\* The time between two firings of the interval, which may come late.
TickSteps == {1000, 1001, 60000, 3600000, 86400000}

Mounted(target, now, ticks) ==
  [ target |-> target, at |-> now, ticks |-> ticks,
    timeLeft |-> getTimeLeft(target, now),
    shown |-> Shown(getTimeLeft(target, now)) ]

\* useState(getTimeLeft(targetTimestamp)) at the first render.
CountdownInit ==
  /\ store = EmptyStore
  /\ \E target \in CountdownTargets, now \in MountTimes :
       calls = [i \in Procs |->
                  IF i = 1
                  THEN [Idle EXCEPT !.op = "countdown", !.pc = "mounted",
                                    !.countdown = Mounted(target, now, 0)]
                  ELSE Idle]
  /\ issued = {}
  /\ launched = {}
  /\ nCreates = 0
  /\ nToggles = 0
  /\ nPurges = 0
  /\ platform = EmptyPlatform

\* The interval fires: setTimeLeft(getTimeLeft(targetTimestamp)).
Tick(dt) ==
  /\ calls[1].op = "countdown"
  /\ calls[1].countdown.ticks < MaxTicks
  /\ calls' = [calls EXCEPT ![1].countdown =
       Mounted(@.target, @.at + dt, @.ticks + 1)]
  /\ UNCHANGED <<store, platform, issued, launched, nCreates, nToggles, nPurges>>

CountdownNext == \E dt \in TickSteps : Tick(dt)

CountdownSpec == CountdownInit /\ [][CountdownNext]_vars

\* ================================================================ claims
\* Ranking score and voter set of the caption stored under (p, id).
Score(p, id) == ZScore(store.captions[p], id)
Voters(p, id) == ZMembers(store.upvotes[<<p, id>>])
VoteCount(p, id) == ZCard(store.upvotes[<<p, id>>])
Stored(p, id) == CaptionExists(store.caption[<<p, id>>])
Author(p, id) == fromRedisDataType(store.caption[<<p, id>>]).username

\* upvoteCaption(p, id, u) run to its end on a store.
AfterUpvote(st, p, id, u) == Run(BeginUpvote(p, id, u), st).store

RECURSIVE SumOver(_, _)
SumOver(S, f) ==
  IF S = {} THEN 0
  ELSE LET x == CHOOSE y \in S : TRUE IN f[x] + SumOver(S \ {x}, f)

\* C1 (SeqSpec): with createCaption and upvoteCaption calls executed one at a
\* time, every member of a contest's ranking sorted set has a score equal to
\* the cardinality of its voter set.
C1_ScoreEqualsVoteCount ==
  \A p \in Posts, id \in Ids :
    id \in ZMembers(store.captions[p]) => Score(p, id) = VoteCount(p, id)

\* C2 (SeqSpec): for every stored entry and every voter, two consecutive
\* upvoteCaption calls by that voter on that entry leave the voter's
\* membership and the entry's ranking score as they were before the first.
C2_ToggleTwiceRestores ==
  \A p \in Posts, id \in Ids, u \in Users :
    Stored(p, id) =>
      LET st2 == AfterUpvote(AfterUpvote(store, p, id, u), p, id, u)
      IN  /\ (u \in ZMembers(st2.upvotes[<<p, id>>])) = (u \in Voters(p, id))
          /\ ZScore(st2.captions[p], id) = Score(p, id)

\* The voters of an entry other than its author.
OtherVoters(p, id) == Voters(p, id) \ {Author(p, id)}

\* Every upvoteCaption call so far was the first upvote of a stored entry by
\* a user other than its author (each such call adds one to the sum, no
\* other call adds anything).
OnlyFirstUpvotesByOthers ==
  /\ nPurges = 0
  /\ nToggles = SumOver({k \in Keys : Stored(k[1], k[2])},
                        [k \in Keys |-> Cardinality(OtherVoters(k[1], k[2]))])

\* C6 (SeqSpec): a new entry has vote count 0 and ranking score 0, and after
\* n distinct voters other than its author have each upvoted it once, its
\* vote count and its ranking score are both n.
C6_CountIsNumberOfUpvoters ==
  OnlyFirstUpvotesByOthers =>
    \A p \in Posts, id \in Ids :
      Stored(p, id) =>
        /\ VoteCount(p, id) = Cardinality(OtherVoters(p, id))
        /\ Score(p, id) = Cardinality(OtherVoters(p, id))

\* C7 (SeqSpec): a successful upvoteCaption(p, id, u) flips u's membership in
\* the voter set of (p, id), returns true exactly when u is a member
\* afterwards, and leaves every voter set with at most one vote per voter.
C7_ToggleFlipsMembership ==
  [][ (nToggles' = nToggles + 1 /\ calls'[1].ret \in {"true", "false"}) =>
        LET c == calls'[1]
            k == <<c.post, c.id>>
        IN  /\ (c.user \in ZMembers(store'.upvotes[k]))
                 = (c.user \notin ZMembers(store.upvotes[k]))
            /\ (c.ret = "true") = (c.user \in ZMembers(store'.upvotes[k]))
            /\ \A kk \in Keys :
                 Cardinality(ZMembers(store'.upvotes[kk]))
                   = Cardinality(store'.upvotes[kk]) ]_vars

\* C7 witness: a toggle that retracted an earlier vote has returned false.
C7_Witness ==
  /\ calls[1].op = "upvote"
  /\ calls[1].ret = "false"
  /\ calls[1].user \notin Voters(calls[1].post, calls[1].id)
  /\ Voters(calls[1].post, calls[1].id) # {}

\* ---- getTopCaptions, read from the slot of the call that has just returned.
\* The ids getTopCaptions returned, in the order returned.
TopIds(c) == [i \in 1..Len(c.out) |-> c.out[i].id]
TopIdSet(c) == { c.out[i].id : i \in 1..Len(c.out) }
\* The entries of the contest: the ids with a stored payload.
Entries(p) == { id \in Ids : Stored(p, id) }
CreatedAt(p, id) == fromRedisDataType(store.caption[<<p, id>>]).createdAt
Min(a, b) == IF a <= b THEN a ELSE b
TopReturned(c) == c.op = "top" /\ c.pc = "done"

\* C8 (RankSpec): on a quiescent store getTopCaptions returns exactly
\* min(3, n) of the contest's n entries, in non-increasing ranking-score
\* order, and no entry left out has a strictly higher score than one returned.
C8_TopThreeByScore ==
  LET c == calls[1]
      p == c.post
  IN  TopReturned(c) =>
        /\ Len(c.out) = Min(3, Cardinality(Entries(p)))
        /\ Cardinality(TopIdSet(c)) = Len(c.out)
        /\ TopIdSet(c) \subseteq Entries(p)
        /\ \A i, j \in 1..Len(c.out) :
             i < j => Score(p, c.out[i].id) >= Score(p, c.out[j].id)
        /\ \A m \in Entries(p) \ TopIdSet(c) :
             \A i \in 1..Len(c.out) : Score(p, m) <= Score(p, c.out[i].id)

\* C8 witness: four entries, three returned and one left out; the entry
\* listed first has a strictly higher score than the one listed second and
\* than the one left out, although it has the smallest id of the four.
C8_Witness ==
  LET c == calls[1]
      p == c.post
  IN  /\ TopReturned(c)
      /\ Cardinality(Entries(p)) = 4
      /\ Len(c.out) = 3
      /\ Score(p, c.out[1].id) > Score(p, c.out[2].id)
      /\ \A m \in Entries(p) \ {c.out[1].id} : m > c.out[1].id
      /\ \E m \in Entries(p) \ TopIdSet(c) : Score(p, m) < Score(p, c.out[1].id)

\* C9 as stated (RankSpec): among entries of equal ranking score,
\* getTopCaptions lists the entry created earlier first and, at the cut,
\* keeps the one created earlier.
C9_TiesByEarliestCreation ==
  LET c == calls[1]
      p == c.post
  IN  TopReturned(c) =>
        /\ \A i, j \in 1..Len(c.out) :
             (i < j /\ Score(p, c.out[i].id) = Score(p, c.out[j].id))
               => c.out[i].createdAt < c.out[j].createdAt
        /\ \A m \in Entries(p) \ TopIdSet(c) :
             \A i \in 1..Len(c.out) :
               Score(p, m) = Score(p, c.out[i].id)
                 => c.out[i].createdAt < CreatedAt(p, m)

\* C9 amended (RankSpec): among entries of equal ranking score,
\* getTopCaptions lists the entry with the greater id first and, at the cut,
\* keeps the one with the greater id, whatever the order of creation.
C9_TiesByGreaterId ==
  LET c == calls[1]
      p == c.post
  IN  TopReturned(c) =>
        /\ \A i, j \in 1..Len(c.out) :
             (i < j /\ Score(p, c.out[i].id) = Score(p, c.out[j].id))
               => c.out[i].id > c.out[j].id
        /\ \A m \in Entries(p) \ TopIdSet(c) :
             \A i \in 1..Len(c.out) :
               Score(p, m) = Score(p, c.out[i].id) => c.out[i].id > m

\* C9 witness: a tie inside the list resolved against the order of creation,
\* and a tie at the cut that keeps the later entry and drops the earlier one.
C9_Witness ==
  LET c == calls[1]
      p == c.post
  IN  /\ TopReturned(c)
      /\ \E i, j \in 1..Len(c.out) :
           /\ i < j
           /\ Score(p, c.out[i].id) = Score(p, c.out[j].id)
           /\ c.out[i].createdAt > c.out[j].createdAt
      /\ \E m \in Entries(p) \ TopIdSet(c) :
           /\ Score(p, m) = Score(p, c.out[3].id)
           /\ CreatedAt(p, m) < c.out[3].createdAt

\* ---- requests in flight together
Quiescent == \A i \in Procs : Finished(calls[i])
\* A finished upvoteCaption call that did not throw.
UpvoteReturned(c) == c.op = "upvote" /\ c.pc = "done" /\ c.ret \in {"true", "false"}

\* C3 (ToggleSpec): two distinct voters who had not voted for an entry upvote it
\* in overlapping calls; when both calls have returned and the voter set
\* holds just these two, the entry's vote count and ranking score are 2.
C3_TwoConcurrentUpvotesCountTwo ==
  \A i, j \in Procs :
    LET a == calls[i]
        b == calls[j]
    IN  ( /\ i # j
          /\ UpvoteReturned(a) /\ UpvoteReturned(b)
          /\ a.post = b.post /\ a.id = b.id /\ a.user # b.user
          /\ a.ret = "true" /\ b.ret = "true"
          /\ Voters(a.post, a.id) = {a.user, b.user} )
        => /\ VoteCount(a.post, a.id) = 2
           /\ Score(a.post, a.id) = 2

\* C4 (ToggleSpec): upvoteCaption is atomic per entry: once every call in flight
\* has returned, an entry that a call toggled has a ranking score equal to
\* the cardinality of its voter set, as after any serial order of the calls.
C4_ToggleAtomicPerEntry ==
  Quiescent =>
    \A i \in Procs :
      UpvoteReturned(calls[i]) =>
        Score(calls[i].post, calls[i].id) = VoteCount(calls[i].post, calls[i].id)

\* Nothing of contest p is left in the store.
NoRecords(p) ==
  /\ ~PostExists(store.post[p])
  /\ store.captions[p] = {}
  /\ \A id \in Ids : ~Stored(p, id) /\ store.upvotes[<<p, id>>] = {}

\* C5 (Spec): a createCaption or upvoteCaption call overlapping the purge of
\* its contest has no effect on the store: once the purge and every call
\* have finished, no record of the contest exists.
C5_PurgeFailsClosed ==
  \A i \in Procs :
    (Quiescent /\ calls[i].op = "purge" /\ calls[i].pc = "done")
      => NoRecords(calls[i].post)

\* C10 (ToggleSpec): at the moment a successful upvoteCaption call returns, the
\* ranking score of its entry, which is what a getTopCaptions call starting
\* next ranks it by, equals the cardinality of the entry's voter set.
C10_TopSeesScoreOfReturnedToggle ==
  [][ \A i \in Procs :
        ( /\ calls[i].op = "upvote"
          /\ calls[i].pc # "done"
          /\ UpvoteReturned(calls'[i]) )
        => ZScore(store'.captions[calls'[i].post], calls'[i].id)
             = ZCard(store'.upvotes[<<calls'[i].post, calls'[i].id>>]) ]_vars

\* ---- settlement and cancellation
\* A run of the settlement job that has returned.
JobReturned(c) == c.op = "job" /\ c.pc = "done"
\* The pending scheduler jobs of contest p.
PendingJobs(p) == { j \in platform.pending : j.postId = p }
\* Nothing of contest p is left in store st.
NoRecordsIn(st, p) ==
  /\ ~PostExists(st.post[p])
  /\ st.captions[p] = {}
  /\ \A id \in Ids : ~CaptionExists(st.caption[<<p, id>>]) /\ st.upvotes[<<p, id>>] = {}

\* C11 (SettleSpec): once a run of the settlement job has found the contest
\* record (entered Running), the run ends with the contest record and all
\* entry, vote and ranking records of the contest deleted, whatever failed in
\* between (publishing, the top-caption read, a missing API key), the
\* commands of the purge itself not failing.
C11_RunningEndsInPurge ==
  LET c == calls[1]
  IN  (JobReturned(c) /\ c.running /\ c.fault # "ppDel") => NoRecords(c.post)

\* C12 (SettleSpec): a run of the settlement job that reaches the publishing
\* loop tries to publish every caption getTopCaptions returned, in order and
\* each exactly once, whether or not publishing an earlier one failed.
C12_EveryTopCaptionTriedOnce ==
  LET c == calls[1]
  IN  (JobReturned(c) /\ c.ret = "ok") => c.tried = TopIds(c)

\* C12 witness: publishing the first of two captions failed, the second was
\* tried after it and posted.
C12_Witness ==
  LET c == calls[1]
  IN  /\ JobReturned(c) /\ c.ret = "ok"
      /\ Len(c.out) = 2
      /\ c.publish[c.out[1].id] # "ok"
      /\ c.tried = <<c.out[1].id, c.out[2].id>>
      /\ platform.published = <<[post |-> c.post, id |-> c.out[2].id]>>

\* C13 (SeqSpec): purging a contest twice (purgePost, then
\* purgeCaptionsAndUpvotes, both a second time) raises no error and leaves
\* the store as the first purge left it, with no record of the contest; the
\* second purgePost reports status false and no job id.
C13_PurgeTwiceIsPurgeOnce ==
  \A p \in Posts :
    LET r1 == Run(BeginPurge(p), store)
        r2 == Run(BeginPurge(p), r1.store)
    IN  /\ r1.call.ret = "ok" /\ r2.call.ret = "ok"
        /\ NoRecordsIn(r1.store, p)
        /\ r2.store = r1.store
        /\ r2.call.has = FALSE
        /\ r2.call.job = Undefined

\* C13 witness: the purge has run a second time on a contest that had been
\* launched, and reported status false.
C13_Witness ==
  /\ nPurges = 2
  /\ calls[1].op = "purge" /\ calls[1].pc = "done"
  /\ calls[1].post \in launched
  /\ calls[1].has = FALSE
  /\ NoRecords(calls[1].post)

\* C14 (SettleSpec): a delivery of the settlement job that comes after an
\* earlier delivery has returned (no command of that run's purge having
\* failed) publishes nothing, removes no post and leaves the store unchanged.
C14_SecondDeliveryChangesNothing ==
  [][ ( /\ JobReturned(calls[1]) /\ calls[1].fault # "ppDel"
        /\ platform'.deliveries = platform.deliveries + 1 )
        => /\ platform'.published = platform.published
           /\ platform'.removals = platform.removals
           /\ store' = store ]_vars

\* C15 (SettleSpec): when the post-delete trigger has processed a contest
\* whose job had not been delivered yet, a later delivery of that job does not
\* find the contest record, so the run never enters Running.
C15_NoRunningAfterCancel ==
  [][ \A j \in platform.pending :
        ( /\ platform.posts[j.postId] = "deleted"
          /\ j \notin platform.delivered
          /\ j \in platform'.delivered )
        => ~calls'[1].running ]_vars

\* C16 (SettleSpec): when the post-delete trigger has run for a contest whose
\* record names a pending job, and the scheduler did not refuse the
\* cancellation, no job of the contest is pending any more, also when reading
\* or deleting the contest record failed.
C16_TriggerCancelsPendingJob ==
  [][ \A p \in Posts :
        ( /\ platform.posts[p] # "deleted"
          /\ platform'.posts[p] = "deleted"
          /\ \E j \in PendingJobs(p) : getPost(store, p).jobId = j.id
          /\ calls'[1].fault # "cancel" )
        => \A j \in platform'.pending : j.postId # p ]_vars

\* C17 (SettleSpec): every contest has at most one pending settlement job,
\* and a contest record that exists beside a pending job stores that job's id.
C17_OnePendingJobPerContest ==
  \A p \in Posts :
    /\ Cardinality(PendingJobs(p)) <= 1
    /\ \A j \in PendingJobs(p) :
         getPost(store, p) # NullPost => getPost(store, p).jobId = j.id

\* C17 witness: a contest with entries, its record and its one pending job.
C17_Witness ==
  \E p \in Posts :
    /\ Cardinality(PendingJobs(p)) = 1
    /\ \E j \in PendingJobs(p) : getPost(store, p).jobId = j.id
    /\ store.captions[p] # {}

\* C18 (SeqSpec): createCaption for a contest that has no record throws and
\* leaves the store as it was.
C18_CreateWithoutContestWritesNothing ==
  [][ ( /\ nCreates' = nCreates + 1
        /\ store.post[calls'[1].post] = EmptyPostHash )
      => /\ calls'[1].ret = "error"
         /\ store' = store ]_vars

\* C18 witness: createCaption has thrown for a contest whose record the
\* settlement purge had deleted.
C18_Witness ==
  /\ calls[1].op = "create" /\ calls[1].ret = "error"
  /\ calls[1].post \in launched
  /\ nPurges >= 1
  /\ NoRecords(calls[1].post)

C20_AuthorCannotVoteOnOwnEntry ==
  [][ ( /\ nToggles' = nToggles + 1
        /\ Stored(calls'[1].post, calls'[1].id)
        /\ Author(calls'[1].post, calls'[1].id) = calls'[1].user )
      => /\ calls'[1].ret = "error"
         /\ store'.upvotes = store.upvotes
         /\ store'.captions = store.captions ]_vars

\* The caption ids a handler returned, in the order of its result.
ListedIds(c) == { c.out[i].caption.id : i \in 1..Len(c.out) }

\* A create request whose service call went through.
CreateAnswered(c) == c.op = "createRoute" /\ c.code = 200

\* C21: in every reachable state, also after a store write inside
\* createCaption failed when an earlier one had succeeded, every stored
\* payload has a ranking record and every ranking record has a stored payload.
C21_PayloadIffRankingRecord ==
  \A p \in Posts, id \in Ids :
    Stored(p, id) <=> id \in ZMembers(store.captions[p])

\* C22: the id createCaption stores and returns is the one it generated,
\* differs from an id supplied in the payload, and no two entries share an id.
C22_IdIsGeneratedAndUnique ==
  [][ LET c == calls'[1] IN
      (c # calls[1] /\ CreateAnswered(c)) =>
        /\ c.out[1].id = c.id
        /\ store'.caption[<<c.post, c.id>>].id = c.id
        /\ c.caption.id # UndefId => c.out[1].id # c.caption.id
        /\ \A k1, k2 \in Keys :
             ( /\ k1 # k2
               /\ store'.caption[k1] # EmptyCaptionHash
               /\ store'.caption[k2] # EmptyCaptionHash )
             => store'.caption[k1].id # store'.caption[k2].id ]_vars

\* A create request that carried the id of an existing entry was answered.
C22_Witness ==
  LET c == calls[1] IN
  /\ CreateAnswered(c)
  /\ c.caption.id # UndefId
  /\ Stored(c.post, c.caption.id)
  /\ Stored(c.post, c.id)


\* C23: a contest holds at most one entry per author; a creation request by a
\* user who already has an entry in the contest does not add a second one.
C23_OneEntryPerAuthor ==
  \A p \in Posts, id1, id2 \in Ids :
    (id1 # id2 /\ Stored(p, id1) /\ Stored(p, id2))
      => Author(p, id1) # Author(p, id2)

\* None of the four caption text fields of a payload is populated.
HasNoText(caption) ==
  /\ caption.topCaption = Undefined
  /\ caption.bottomCaption = Undefined
  /\ caption.topExtendedCaption = Undefined
  /\ caption.bottomExtendedCaption = Undefined

\* C24: a create request whose payload has none of the four caption text
\* fields populated is rejected with a validation error (400) and stores
\* nothing.
C24_EmptyCaptionRejected ==
  [][ LET c == calls'[1] IN
      ( /\ c # calls[1]
        /\ c.op = "createRoute"
        /\ HasNoText(c.caption)
        /\ store.post[c.post] # EmptyPostHash )
      => (c.code = 400 /\ store' = store) ]_vars

\* The HTTP code that names the cause of a failed request: 500 for a call that
\* threw unexpectedly, 400 for a missing post id, 401 for a missing identity,
\* and 404 otherwise, the contest or the entry not being there.
CauseCode(c) ==
  IF c.fault # "none" THEN 500
  ELSE IF c.post = Undefined THEN 400
  ELSE IF c.user = Undefined THEN 401
  ELSE 404

\* C25: every failed API request is answered with status "error" and the
\* HTTP code of its cause: 400, 401, 404, and 500 only for an unexpected
\* failure.
C25_ErrorCodeNamesCause ==
  LET c == calls[1] IN
  ( /\ c.op \in {"createRoute", "upvoteRoute", "listRoute", "imageRoute"}
    /\ c.pc = "done"
    /\ c.code # 200 )
  => (c.ret = "error" /\ c.code = CauseCode(c))

\* C26: getCaptionsWithUpvotes returns exactly the entries of the contest
\* that have a stored payload, each once, with its stored payload, the size
\* of its voter set and whether the caller is in it; no entry of another
\* contest appears.
C26_ListingIsTheStoredEntries ==
  LET c == calls[1] IN
  (c.op = "listRoute" /\ c.code = 200) =>
    /\ ListedIds(c) = { id \in Ids : Stored(c.post, id) }
    /\ Len(c.out) = Cardinality(ListedIds(c))
    /\ \A i \in 1..Len(c.out) :
         LET id == c.out[i].caption.id IN
         /\ c.out[i].caption = fromRedisDataType(store.caption[<<c.post, id>>])
         /\ c.out[i].upvotes = VoteCount(c.post, id)
         /\ c.out[i].userUpvoted = (c.user \in Voters(c.post, id))

\* C28: the id and the payload of an entry never change after its creation
\* until the entry is purged: upvoteCaption, createCaption of another entry,
\* the listing and getTopCaptions leave the stored payload as it is.
C28_PayloadNeverChanges ==
  [][ \A k \in Keys :
        store.caption[k] # EmptyCaptionHash =>
          \/ store'.caption[k] = store.caption[k]
          \/ calls'[1].op = "purge" /\ store'.caption[k] = EmptyCaptionHash ]_vars

\* Two entries are listed after the second was created and a user who is not
\* the author has voted.
C28_Witness ==
  LET c == calls[1] IN
  /\ c.op = "listRoute" /\ c.code = 200 /\ Len(c.out) = 2
  /\ nCreates = 2
  /\ \E id \in Ids : Stored(c.post, id) /\ Voters(c.post, id) = {"A", "B"}

\* C27: the settlement hands to the publisher exactly the entries
\* getTopCaptions returns for the contest, at most three, one at a time and
\* the highest score first; no entry outside that list and no entry of
\* another contest is published.
C27_PublishesTheTopCaptionsInOrder ==
  [][ platform'.deliveries = platform.deliveries + 1 =>
      LET c   == calls'[1]
          top == Run(BeginTop(c.post), store).call.out
          n   == Len(platform.published)
      IN  /\ c.tried = [i \in 1..Len(top) |-> top[i].id]
          /\ Len(c.tried) <= 3
          /\ \A i, j \in 1..Len(c.tried) :
               i < j => ZScore(store.captions[c.post], c.tried[i])
                          >= ZScore(store.captions[c.post], c.tried[j])
          /\ platform'.published =
               platform.published \o
                 [i \in 1..Len(c.tried) |-> [post |-> c.post, id |-> c.tried[i]]]
          /\ \A i \in 1..Len(c.tried), q \in Posts \ {c.post} :
               store.caption[<<q, c.tried[i]>>] = EmptyCaptionHash ]_vars

\* A contest of four entries, one of them voted on, has been settled and
\* three entries were published.
C27_Witness ==
  /\ calls[1].op = "job" /\ calls[1].ret = "ok"
  /\ Len(calls[1].tried) = 3
  /\ Len(platform.published) = 3
  /\ nCreates = 4 /\ nToggles = 1

\* A contest has been settled while the other contest held an entry.
C27_OtherContestUntouched ==
  /\ calls[1].op = "job" /\ Len(platform.published) > 0
  /\ \E q \in Posts \ {calls[1].post}, id \in Ids :
       store.caption[<<q, id>>] # EmptyCaptionHash

\* C30: over the life of a contest each entry is handed to the publisher at
\* most once, also when the settlement job is delivered twice and the two
\* runs overlap.
C30_NoEntryPublishedTwice ==
  \A i, j \in 1..Len(platform.published) :
    i # j => platform.published[i] # platform.published[j]

\* The ranking records getTopCaptions selects in store st, highest first, and
\* the ones the listing selects, in the order of the ranking set.
SelectedTop(st, p) ==
  LET n == Cardinality(st.captions[p])
  IN  Reverse(ZRange(st.captions[p], Max(0, n - 3), n - 1, IdRank))
SelectedAll(st, p) == ZRange(st.captions[p], 0, -1, IdRank)

\* The members among the selected records whose payload is in store st.
WithPayload(st, p, items) ==
  LET live == SelectSeq(items, LAMBDA it : st.caption[<<p, it.member>>] # EmptyCaptionHash)
  IN  [i \in 1..Len(live) |-> live[i].member]

\* A ranking record of contest p has no payload.
Dangling(p) ==
  \E id \in ZMembers(store.captions[p]) : store.caption[<<p, id>>] = EmptyCaptionHash

\* C29: a ranking record whose payload is missing does not fail a read:
\* getTopCaptions and getCaptionsWithUpvotes skip it and return every other
\* entry they selected, without raising an error.
C29_DanglingRecordIsSkipped ==
  [][ LET c == calls'[1] IN
      (c # calls[1] /\ c.op \in {"top", "list"} /\ c.pc = "done") =>
        /\ c.ret = "ok"
        /\ c.op = "top" =>
             [i \in 1..Len(c.out) |-> c.out[i].id]
               = WithPayload(store, c.post, SelectedTop(store, c.post))
        /\ c.op = "list" =>
             [i \in 1..Len(c.out) |-> c.out[i].caption.id]
               = WithPayload(store, c.post, SelectedAll(store, c.post)) ]_vars

\* getTopCaptions has returned an entry from a ranking set that also holds a
\* record without payload.
C29_Witness ==
  /\ TopReturned(calls[1]) /\ calls[1].ret = "ok"
  /\ Len(calls[1].out) > 0
  /\ Dangling(calls[1].post)
  /\ \A i \in 1..Len(calls[1].out) : Stored(calls[1].post, calls[1].out[i].id)

\* The listing has returned an entry from a ranking set that also holds a
\* record without payload.
C29_ListingReached ==
  /\ calls[1].op = "list" /\ calls[1].pc = "done" /\ calls[1].ret = "ok"
  /\ Len(calls[1].out) > 0
  /\ Dangling(calls[1].post)
  /\ \A i \in 1..Len(calls[1].out) : Stored(calls[1].post, calls[1].out[i].caption.id)

\* C31: the list getTopCaptions returns is the top of the ranking set as it
\* stood at one moment of the call, also when createCaption or upvoteCaption
\* runs between its cardinality read and its range read: it never returns a
\* lower-scored entry while omitting a higher-scored one that was in the
\* ranking throughout the call with its score unchanged.
C31_TopIsASnapshot ==
  [][ LET c == calls'[2] IN
      (c.op = "top" /\ c.pc = "done" /\ calls[2].pc # "done"
         /\ c.start.toggles = nToggles) =>
        \A x \in ZMembers(c.start.ranking) \cap ZMembers(store'.captions[c.post]) :
          \A i \in 1..Len(c.out) :
            x \notin TopIdSet(c) =>
              ZScore(store'.captions[c.post], c.out[i].id)
                >= ZScore(store'.captions[c.post], x) ]_vars

\* C32 (SettleSpec): every contest whose record has been persisted is
\* eventually settled or cancelled: as long as the record is there, the post
\* is live and no settlement job of the contest has been delivered, a
\* settlement job of the contest is pending, also when scheduling the job
\* failed while the contest was created.
C32_PersistedContestHasPendingJob ==
  \A p \in Posts :
    ( /\ PostExists(store.post[p])
      /\ platform.posts[p] = "live"
      /\ \A j \in platform.delivered : j.postId # p )
    => PendingJobs(p) # {}

\* C35 (SettleSpec): when saving the contest record fails after the platform
\* post was submitted, the creation is compensated: the platform post is
\* removed, no contest record exists and no settlement job of that post stays
\* pending.
C35_FailedSaveIsCompensated ==
  [][ \A p \in Posts :
        ( /\ p \notin launched
          /\ p \in launched'
          /\ ~PostExists(store'.post[p]) )
        => /\ platform'.posts[p] = "removed"
           /\ \A j \in platform'.pending : j.postId # p ]_vars

\* C33 (PurgeSpec): after purgeCaptionsAndUpvotes has returned without
\* raising an error, no entry payload and no voter set of the contest
\* remains, also when deleting the keys of an entry failed during the run or
\* when an entry payload had no ranking record.
C33_PurgeLeavesNoEntry ==
  [][ LET c == calls'[1] IN
      (nPurges' = nPurges + 1 /\ c.op = "purge" /\ c.ret = "ok") =>
        \A id \in Ids :
          /\ ~CaptionExists(store'.caption[<<c.post, id>>])
          /\ store'.upvotes[<<c.post, id>>] = {} ]_vars

\* The records of contest p in store st.
RecordsOf(st, p) ==
  [ post |-> st.post[p], captions |-> st.captions[p],
    caption |-> [id \in Ids |-> st.caption[<<p, id>>]],
    upvotes |-> [id \in Ids |-> st.upvotes[<<p, id>>]] ]

\* C34 (FrameSpec): upvoteCaption and createCaption change only the records
\* of their target: a toggle on (or the creation of) an entry leaves the
\* payload, the voter set and the ranking score of every other entry
\* unchanged, and a create, toggle or purge on one contest leaves every
\* record of every other contest unchanged.
C34_OnlyTheTargetChanges ==
  [][ LET c == calls'[1] IN
      (nCreates' # nCreates \/ nToggles' # nToggles \/ nPurges' # nPurges) =>
        /\ \A p \in Posts \ {c.post} : RecordsOf(store', p) = RecordsOf(store, p)
        /\ c.op \in {"upvote", "create"} =>
             \A id \in Ids \ {c.id} :
               /\ store'.caption[<<c.post, id>>] = store.caption[<<c.post, id>>]
               /\ store'.upvotes[<<c.post, id>>] = store.upvotes[<<c.post, id>>]
               /\ ZScore(store'.captions[c.post], id) = ZScore(store.captions[c.post], id) ]_vars

\* C34 witness: a toggle has returned on an entry of a contest that holds
\* another entry with a voter and a ranking score, while the other contest
\* holds an entry of its own.
C34_Witness ==
  LET c == calls[1] IN
  /\ c.op = "upvote" /\ c.pc = "done" /\ c.ret \in {"true", "false"}
  /\ \E id \in Ids \ {c.id} :
       /\ CaptionExists(store.caption[<<c.post, id>>])
       /\ store.upvotes[<<c.post, id>>] # {}
       /\ id \in ZMembers(store.captions[c.post])
  /\ \E p \in Posts \ {c.post}, id \in Ids :
       /\ CaptionExists(store.caption[<<p, id>>])
       /\ store.upvotes[<<p, id>>] # {}
       /\ id \in ZMembers(store.captions[p])

\* C36 (BackendSpec): /generateCaption produces an image only for a request
\* whose x-api-key header equals the configured API key; a request without
\* the header or with a different key never reaches the rendering and is
\* answered 403, whatever the configuration of the server, an unset API key
\* included.
C36_OnlyTheConfiguredKeyRenders ==
  \A i \in Procs :
    LET c == calls[i] IN
    (c.op = "generateCaption" /\ (c.key = Undefined \/ c.key # platform.apiKey)) =>
      /\ c.pc # "gn_render"
      /\ c.out = <<>>
      /\ c.pc = "done" => c.code = 403

\* A round trip that has been read back.
ReadBack(c) == c.op = "roundTrip" /\ c.pc = "done"
\* What a text reads back as: itself, or absent when it was empty or absent.
TextBack(t) == IF t \in {"", Undefined} THEN Undefined ELSE t

\* C37 (RoundTripSpec): a caption written with toRedisDataType and read back
\* with fromRedisDataType has the same id, username, four caption texts and
\* creation time (an empty text reads back as absent), and each white-banner
\* flag reads back true exactly when it was stored true: false and absent
\* both read back as absent.
C37_RoundTripKeepsTheCaption ==
  LET c == calls[1] IN
  ReadBack(c) =>
    LET in == c.caption
        back == c.out[1]
    IN  /\ back.id = in.id
        /\ back.username = in.username
        /\ back.topExtendedCaption = TextBack(in.topExtendedCaption)
        /\ back.bottomExtendedCaption = TextBack(in.bottomExtendedCaption)
        /\ back.topCaption = TextBack(in.topCaption)
        /\ back.bottomCaption = TextBack(in.bottomCaption)
        /\ back.createdAt = in.createdAt
        /\ (back.topExtensionWhite = "TRUE") = (in.topExtensionWhite = "TRUE")
        /\ (back.bottomExtensionWhite = "TRUE") = (in.bottomExtensionWhite = "TRUE")
        /\ back.topExtensionWhite \in {"TRUE", Undefined}
        /\ back.bottomExtensionWhite \in {"TRUE", Undefined}

\* C37 witness: a caption read back that was written with an empty text, a
\* text, a false flag, a true flag and a creation time of several digits.
C37_Witness ==
  LET c == calls[1] IN
  /\ ReadBack(c)
  /\ c.caption.topCaption = ""
  /\ c.caption.bottomCaption = "text"
  /\ c.caption.topExtensionWhite = "FALSE"
  /\ c.caption.bottomExtensionWhite = "TRUE"
  /\ c.caption.createdAt = 120
  /\ c.out[1].topCaption = Undefined
  /\ c.out[1].bottomCaption = "text"
  /\ c.out[1].createdAt = 120

\* C38 (CountdownSpec): getTimeLeft(target) returns all zeros when
\* target <= now; otherwise total = target - now > 0, 0 <= hours < 24,
\* 0 <= minutes < 60, 0 <= seconds < 60, days >= 0 and
\* days*86400 + hours*3600 + minutes*60 + seconds = floor(total / 1000); the
\* Countdown shows 'finished' exactly when total <= 0.
C38_TimeLeftSplitsTheDifference ==
  LET cd == calls[1].countdown
      t  == cd.timeLeft
  IN  calls[1].op = "countdown" =>
        /\ cd.target <= cd.at =>
             /\ t.total = 0 /\ t.days = 0 /\ t.hours = 0
             /\ t.minutes = 0 /\ t.seconds = 0
        /\ cd.target > cd.at =>
             /\ t.total = cd.target - cd.at
             /\ t.total > 0
             /\ t.days >= 0
             /\ t.hours >= 0 /\ t.hours < 24
             /\ t.minutes >= 0 /\ t.minutes < 60
             /\ t.seconds >= 0 /\ t.seconds < 60
             /\ t.days * 86400 + t.hours * 3600 + t.minutes * 60 + t.seconds
                  = t.total \div 1000
        /\ (cd.shown = "finished") <=> (t.total <= 0)

\* C38 witness: after the interval has fired, more than a day, an hour, a
\* minute and a second are left, and a fraction of a second besides.
C38_Witness ==
  LET cd == calls[1].countdown
  IN  /\ calls[1].op = "countdown"
      /\ cd.ticks > 0
      /\ cd.timeLeft.days > 0 /\ cd.timeLeft.hours > 0
      /\ cd.timeLeft.minutes > 0 /\ cd.timeLeft.seconds > 0
      /\ cd.timeLeft.total % 1000 # 0
      /\ cd.shown = "remaining"

\* C38 witness: the interval has fired at or after the target and the
\* component shows that the countdown is finished.
C38_FinishedReached ==
  LET cd == calls[1].countdown
  IN  /\ calls[1].op = "countdown"
      /\ cd.ticks > 0 /\ cd.target > 0 /\ cd.target <= cd.at
      /\ cd.shown = "finished"

====
